---- MODULE Spec2Model ----
(***************************************************************************)
(* A model of the solar-analyst reporting service (src/ai): the            *)
(* measurements table, the report functions of tools/*.py, the anchor-date *)
(* cache and the retrying executor of database.py, and the two transports. *)
(*                                                                         *)
(* Time is counted in sampling slots; SlotsPerDay slots make one calendar  *)
(* day, so DATE(ts) = ts \div SlotsPerDay.  A nullable column or field is  *)
(* a sequence of length at most one: <<>> is NULL/None, <<v>> is v.        *)
(* SQL text is modelled by its relational meaning on the table, with its   *)
(* parameters bound as the statement names them.                           *)
(***************************************************************************)
EXTENDS Integers, Sequences, FiniteSets, TLC

VARIABLES
    store,        \* the measurements table: a set of rows
    now,          \* the wall clock (NOW(), CURRENT_DATE, datetime.now()), in slots
    anchor_cache, \* database._anchor_date_cache
    call,         \* the tool call last served: [tool, args, via, plan]
    outcome       \* what that call produced: [kind, queries, report | exc]

vars == <<store, now, anchor_cache, call, outcome>>

---------------------------------------------------------------------------
(* Bounds of the model *)

MaxRows == 3        \* rows the table holds at most
MaxNow == 5         \* the wall clock stops here
SlotsPerDay == 2    \* sampling slots per calendar day
MaxIds == 6         \* longest logger_ids list passed to compare_loggers
ResultLimit == 2    \* the configured SOLAR_ANOMALY_RESULT_LIMIT
IssueLimit == 2     \* the configured SOLAR_DIAGNOSTIC_ISSUE_LIMIT

---------------------------------------------------------------------------
(* Optional values and small helpers *)

None == <<>>
Some(v) == <<v>>
IsNone(x) == x = <<>>
Val(x) == x[1]

Min(S) == CHOOSE m \in S : \A x \in S : m <= x
Max(S) == CHOOSE m \in S : \A x \in S : m >= x

RECURSIVE SumSeq(_)
SumSeq(s) == IF s = <<>> THEN 0 ELSE Head(s) + SumSeq(Tail(s))

\* num/den rounded to the nearest integer, den > 0
Round(num, den) == (2 * num + den) \div (2 * den)

Take(s, n) == SubSeq(s, 1, IF Len(s) < n THEN Len(s) ELSE n)

\* DATE("timestamp"), "timestamp"::date and strftime("%Y-%m-%d") of a slot
DateOf(ts) == ts \div SlotsPerDay

\* a date string that is not YYYY-MM-DD
BadDate == 0 - 1

---------------------------------------------------------------------------
(* The measurements table *)

KnownLoggers == {"INV001", "INV002"}
Timestamps == 0 .. MaxNow

\* the device type of each serial number; no error table exists for the
\* type of INV004
LoggerType(l) ==
    CASE l = "INV001" -> "goodwe"
      [] l = "INV003" -> "meier"
      [] l = "INV004" -> "sungrow"
      [] OTHER -> "lti"

Row(l, ts, p, g, e, c) ==
    [loggerId |-> l, loggerType |-> LoggerType(l), ts |-> ts, power |-> p,
     irradiance |-> g, energy |-> e, errorCode |-> c]

\* rows of a set, oldest first (ORDER BY "timestamp" ASC)
RECURSIVE OrderByTs(_)
OrderByTs(S) ==
    IF S = {} THEN <<>>
    ELSE LET m == CHOOSE r \in S : \A x \in S : r.ts <= x.ts
         IN  <<m>> \o OrderByTs(S \ {m})

\* the elements of a set of integers, ascending
RECURSIVE Ascending(_)
Ascending(S) == IF S = {} THEN <<>> ELSE <<Min(S)>> \o Ascending(S \ {Min(S)})

Reverse(s) == [i \in 1 .. Len(s) |-> s[Len(s) + 1 - i]]

RowsOf(logger_id) == {r \in store : r.loggerId = logger_id}

---------------------------------------------------------------------------
(* Statement executions.  A call is served under a plan: the outcome of    *)
(* each successive statement execution of that call, "ok" once the plan    *)
(* ends.  OperationalError and InterfaceError are the transient failures.  *)

Transient == {"OperationalError", "InterfaceError"}

NoFaults == <<>>
PlanAt(plan, k) == IF k <= Len(plan) THEN plan[k] ELSE "ok"

\* what a report function hands back: the statements it executed, in order,
\* and the report it returned or the exception it let through
Raised(queries, exc) == [kind |-> "raised", queries |-> queries, exc |-> exc]
Returned(queries, report) == [kind |-> "report", queries |-> queries, report |-> report]

\* a run of a report function: its result and the anchor cache it leaves
Done(result, cache) == [result |-> result, cache |-> cache]

NoCall == [tool |-> "none"]
NoOutcome == [kind |-> "none"]

---------------------------------------------------------------------------
(* config.Settings *)

anomaly_irradiance_threshold == 50
anomaly_result_limit == ResultLimit
max_performance_ratio == 1500      \* 1.5, in thousandths
forecast_min_history_days == 3
forecast_history_days == 14
diagnostic_issue_limit == IssueLimit

---------------------------------------------------------------------------
(* models/context.py.  A text is the sequence of its fixed phrases; the     *)
(* interpolated figures are left out.                                      *)

Insight(type, severity, title) == [type |-> type, severity |-> severity, title |-> title]

build_performance_insight(title, severity) == Insight("performance", severity, title)
build_financial_insight(title, severity) == Insight("financial", severity, title)
build_operational_insight(title, severity) == Insight("operational", severity, title)

build_next_step(action, priority, tool_hint) ==
    [priority |-> priority, action |-> action, tool_hint |-> tool_hint]

ContextEnvelope(summary, insights, next_steps, color_scheme, alert) ==
    [summary |-> summary, insights |-> insights, next_steps |-> next_steps,
     color_scheme |-> color_scheme, alert |-> alert]

\* a list built by conditional appends
When(cond, item) == IF cond THEN <<item>> ELSE <<>>

\* a float that is a quotient of integers, den > 0, and its comparisons
Frac(num, den) == [num |-> num, den |-> den]
Above(q, x) == q.num > x * q.den
Below(q, x) == q.num < x * q.den

---------------------------------------------------------------------------
(* queries/builders.py, and the range statement of the smart recovery *)

\* the outcome of the k-th statement execution of a call: the planned
\* failure, else the database's rejection of a malformed date parameter
Execute(plan, k, date) ==
    IF PlanAt(plan, k) # "ok" THEN PlanAt(plan, k)
    ELSE IF date = Some(BadDate) THEN "DataError"
    ELSE "ok"

\* rows of one logger since NOW() - days, oldest first
build_health_analysis_query(logger_id, days) ==
    OrderByTs({r \in RowsOf(logger_id) : r.ts >= now - days * SlotsPerDay})

\* a variant without the date predicate, against which C4 is tested
build_power_curve_query_undated(logger_id, date) == OrderByTs(RowsOf(logger_id))

\* rows of one logger on one calendar day, oldest first
build_power_curve_query(logger_id, date) ==
    OrderByTs({r \in RowsOf(logger_id) : DateOf(r.ts) = date})

\* the column a metric names; an unknown metric reads the power column
MetricValue(r, metric) ==
    IF metric = "energy" THEN r.energy
    ELSE IF metric = "irradiance" THEN r.irradiance
    ELSE r.power

\* rows of the listed loggers, optionally of one calendar day
build_comparison_query(logger_ids, include_date_filter, date) ==
    {r \in store : /\ \E i \in 1 .. Len(logger_ids) : r.loggerId = logger_ids[i]
                   /\ (include_date_filter => DateOf(r.ts) = date)}

\* per calendar day the sum of the energy readings, against which C14 is
\* tested
DailyKwhSummed(S) ==
    LET days == {DateOf(r.ts) : r \in S}
    IN  [d \in days |->
            SumSeq([i \in 1 .. Cardinality({x \in S : DateOf(x.ts) = d}) |->
                       Val(OrderByTs({x \in S : DateOf(x.ts) = d})[i].energy)])]

\* per calendar day in [start_date, end_date], the largest energy reading
DailyKwh(S) ==
    LET days == {DateOf(r.ts) : r \in S}
    IN  [d \in days |-> Max({Val(r.energy) : r \in {x \in S : DateOf(x.ts) = d}})]

build_financial_query(logger_id, start_date, end_date) ==
    DailyKwh({r \in RowsOf(logger_id) :
                 /\ DateOf(r.ts) >= start_date
                 /\ DateOf(r.ts) <= end_date
                 /\ ~IsNone(r.energy)})

\* MAX(power) over the logger's non-null power readings; NULL when none
build_peak_power_query(logger_id) ==
    LET S == {Val(r.power) : r \in {x \in RowsOf(logger_id) : ~IsNone(x.power)}}
    IN  IF S = {} THEN None ELSE Some(Max(S))

build_performance_query(logger_id, date) ==
    OrderByTs({r \in RowsOf(logger_id) :
                  /\ DateOf(r.ts) = date
                  /\ ~IsNone(r.power)
                  /\ ~IsNone(r.irradiance)
                  /\ Val(r.irradiance) > 0})

\* per calendar day since NOW() - 14 days, the largest energy reading
build_forecast_query(logger_id) ==
    DailyKwh({r \in RowsOf(logger_id) :
                 /\ r.ts >= now - forecast_history_days * SlotsPerDay
                 /\ ~IsNone(r.energy)})

\* a type for every serial number, against which C20 is tested
build_logger_type_query_any(logger_id) == Some(LoggerType(logger_id))

\* SELECT DISTINCT "loggerType" ... LIMIT 1: no row for a serial number
\* without measurements
build_logger_type_query(logger_id) ==
    IF RowsOf(logger_id) = {} THEN None
    ELSE Some((CHOOSE r \in RowsOf(logger_id) : TRUE).loggerType)

\* rows carrying an error code since NOW() - days, newest first
build_error_scan_query(logger_id, days) ==
    Reverse(OrderByTs({r \in RowsOf(logger_id) :
                          /\ r.ts >= now - days * SlotsPerDay
                          /\ ~IsNone(r.errorCode)}))

\* SELECT MIN("timestamp"), MAX("timestamp") ... of the listed loggers:
\* one row, both columns NULL when no row matches
range_query(ids) ==
    LET S == {r.ts : r \in {x \in store : x.loggerId \in ids}}
    IN  IF S = {} THEN [min_ts |-> None, max_ts |-> None]
        ELSE [min_ts |-> Some(Min(S)), max_ts |-> Some(Max(S))]

AvailableRange(start, end) == [start |-> start, end |-> end]

\* a variant reporting the earliest date for both bounds, against which C1
\* is tested
RangeOfEarliest(rng) ==
    IF IsNone(rng.min_ts) THEN AvailableRange(None, None)
    ELSE AvailableRange(Some(DateOf(Val(rng.min_ts))), Some(DateOf(Val(rng.min_ts))))

\* the availableRange a smart recovery reports for a range row
RangeOf(rng) ==
    IF IsNone(rng.min_ts) THEN AvailableRange(None, None)
    ELSE AvailableRange(Some(DateOf(Val(rng.min_ts))), Some(DateOf(Val(rng.max_ts))))

\* DataStatus of a range row
StatusOf(rng) == IF IsNone(rng.min_ts) THEN "no_data" ELSE "no_data_in_window"

---------------------------------------------------------------------------
(* tools/monitoring.py *)

\* a variant with an inclusive threshold, against which C2 is tested
IsDaytimeOutageInclusive(row) ==
    /\ (row.power = Some(0) \/ IsNone(row.power))
    /\ ~IsNone(row.irradiance)
    /\ Val(row.irradiance) >= anomaly_irradiance_threshold

IsDaytimeOutage(row) ==
    /\ (row.power = Some(0) \/ IsNone(row.power))
    /\ ~IsNone(row.irradiance)
    /\ Val(row.irradiance) > anomaly_irradiance_threshold

AnomalyPoint(row) ==
    [timestamp |-> row.ts, activePowerWatts |-> row.power,
     irradiance |-> row.irradiance, reason |-> "daytime_outage"]

AnomalyAlert(anomaly_count) ==
    IF anomaly_count = 0 THEN None
    ELSE IF anomaly_count <= 3 THEN None
    ELSE Some("anomalies detected - investigation recommended")

AnomalyInsights(anomaly_count) ==
    IF anomaly_count > 0
    THEN <<build_performance_insight(
               "Daytime outages detected",
               IF anomaly_count > 10 THEN "critical"
               ELSE IF anomaly_count > 3 THEN "warning"
               ELSE "info")>>
    ELSE <<build_performance_insight("No issues found", "info")>>

AnomalyNextSteps(anomaly_count) ==
    IF anomaly_count > 0
    THEN <<build_next_step("Show power curve for affected days", "recommended",
                           "get_power_curve"),
           build_next_step("Check error codes in system logs", "recommended",
                           "diagnose_error_codes")>>
    ELSE <<build_next_step("Calculate efficiency ratio", "suggested",
                           "calculate_performance_ratio"),
           build_next_step("View financial savings", "suggested",
                           "calculate_financial_savings")>>

\* insights=insights: the one list that is not cut
_build_anomaly_context(anomaly_count) ==
    ContextEnvelope(
        IF anomaly_count = 0 THEN <<"Good news!", "shows no anomalies">>
        ELSE IF anomaly_count <= 3 THEN <<"had", "anomaly events">>
        ELSE <<"shows", "anomalies", "This needs attention">>,
        AnomalyInsights(anomaly_count),
        Take(AnomalyNextSteps(anomaly_count), 3),
        IF anomaly_count = 0 THEN "success"
        ELSE IF anomaly_count > 10 THEN "danger"
        ELSE "warning",
        AnomalyAlert(anomaly_count))

analyze_inverter_health(logger_id, days, plan) ==
    LET df == build_health_analysis_query(logger_id, days)
        rng == range_query({logger_id})
        anomalies == SelectSeq(df, IsDaytimeOutage)
        points == [i \in 1 .. Len(anomalies) |-> AnomalyPoint(anomalies[i])]
        q1 == <<"health_analysis">>
        q2 == <<"health_analysis", "range">>
    IN  IF Execute(plan, 1, None) # "ok"
        THEN Raised(q1, Execute(plan, 1, None))
        ELSE IF df = <<>>
        THEN IF Execute(plan, 2, None) # "ok"
             THEN Raised(q2, Execute(plan, 2, None))
             ELSE Returned(q2,
                      [type |-> "anomaly_report", loggerId |-> logger_id,
                       status |-> Some(StatusOf(rng)),
                       availableRange |-> Some(RangeOf(rng)),
                       daysAnalyzed |-> None, totalRecords |-> None,
                       anomalyCount |-> None, points |-> <<>>,
                       message |-> Some("No data"), context |-> None])
        ELSE Returned(q1,
                 [type |-> "anomaly_report", loggerId |-> logger_id, status |-> None,
                  availableRange |-> None, daysAnalyzed |-> Some(days),
                  totalRecords |-> Some(Len(df)), anomalyCount |-> Some(Len(points)),
                  points |-> Take(points, anomaly_result_limit), message |-> None,
                  context |-> Some(_build_anomaly_context(Len(points)))])

\* a sequence of integers, ascending
RECURSIVE SortedSeq(_)
SortedSeq(s) ==
    IF s = <<>> THEN <<>>
    ELSE LET i == CHOOSE i \in 1 .. Len(s) : \A j \in 1 .. Len(s) : s[i] <= s[j]
         IN  <<s[i]>> \o SortedSeq(SubSeq(s, 1, i - 1) \o SubSeq(s, i + 1, Len(s)))

\* twice df["timestamp"].diff().median(), for a frame of two rows or more
TwiceMedianInterval(df) ==
    LET gaps == SortedSeq([i \in 1 .. Len(df) - 1 |-> df[i + 1].ts - df[i].ts])
        m == Len(gaps)
    IN  gaps[(m + 1) \div 2] + gaps[(m + 2) \div 2]

\* a trend that compares the halves additively, against which C13 is tested
TrendOfAdditive(power) ==
    LET mid == Len(power) \div 2
        first == SumSeq(SubSeq(power, 1, mid))
        second == SumSeq(SubSeq(power, mid + 1, Len(power)))
    IN  IF mid > 0
        THEN IF second > first + 1 THEN "rising"
             ELSE IF second < first - 1 THEN "falling"
             ELSE "stable"
        ELSE "stable"

\* the trend of a series of numbers: the mean of power[mid:] against 1.1
\* and 0.9 times the mean of power[:mid], compared exactly over the sums
TrendOf(power) ==
    LET mid == Len(power) \div 2
        n1 == mid
        n2 == Len(power) - mid
        s1 == SumSeq(SubSeq(power, 1, mid))
        s2 == SumSeq(SubSeq(power, mid + 1, Len(power)))
    IN  IF mid > 0
        THEN IF 10 * s2 * n1 > 11 * s1 * n2 THEN "rising"
             ELSE IF 10 * s2 * n1 < 9 * s1 * n2 THEN "falling"
             ELSE "stable"
        ELSE "stable"

\* _calculate_power_curve_stats: an empty SummaryStats when no row has a
\* power; peak and average (in tenths) of the non-null powers, the energy
\* (average x rows with a power x median interval, in watts x half slots)
\* of a frame of two rows or more, and the trend
calculate_power_curve_stats(df) ==
    LET samples == SelectSeq(df, LAMBDA r : r.power # None)
        power == [i \in 1 .. Len(samples) |-> Val(samples[i].power)]
    IN  IF power = <<>>
        THEN [peakValue |-> None, avgValue |-> None, totalEnergy |-> None,
              trend |-> None]
        ELSE [peakValue |-> Some(Max({power[i] : i \in 1 .. Len(power)})),
              avgValue |-> Some(Round(10 * SumSeq(power), Len(power))),
              totalEnergy |-> IF Len(df) >= 2
                              THEN Some(SumSeq(power) * TwiceMedianInterval(df))
                              ELSE None,
              trend |-> Some(TrendOf(power))]

\* a float that is set and not 0
Truthy(x) == ~IsNone(x) /\ Val(x) # 0

\* the next steps of a power curve, the step of a falling trend last
PowerCurveNextStepsAppended(stats) ==
    <<build_next_step("Compare with other inverters on this date", "suggested",
                      "compare_loggers"),
      build_next_step("Calculate efficiency for this date", "suggested",
                      "calculate_performance_ratio")>>
    \o When(stats.trend = Some("falling"),
            build_next_step("Check for anomalies or issues", "recommended",
                            "analyze_inverter_health"))

\* next_steps.insert(0, ...) when the trend is falling
PowerCurveNextSteps(stats) ==
    When(stats.trend = Some("falling"),
         build_next_step("Check for anomalies or issues", "recommended",
                         "analyze_inverter_health"))
    \o <<build_next_step("Compare with other inverters on this date", "suggested",
                         "compare_loggers"),
         build_next_step("Calculate efficiency for this date", "suggested",
                         "calculate_performance_ratio")>>

\* the peak time is set whenever the peak is; the adjective of the daily
\* output (strong, moderate, light) is left out of the title
PowerCurveInsights(stats) ==
    When(Truthy(stats.peakValue), build_performance_insight("Peak performance", "info"))
    \o When(~IsNone(stats.trend),
            build_performance_insight(
                "Production was " \o (IF IsNone(stats.trend) THEN "" ELSE Val(stats.trend)),
                IF stats.trend = Some("falling") THEN "warning" ELSE "info"))
    \o When(Truthy(stats.totalEnergy), build_performance_insight("daily output", "info"))

_build_power_curve_context(stats) ==
    ContextEnvelope(<<"Inverter", "produced", "peaking at">>,
                    Take(PowerCurveInsights(stats), 3),
                    Take(PowerCurveNextSteps(stats), 3),
                    IF stats.trend \in {Some("rising"), Some("stable")} THEN "success"
                    ELSE "warning",
                    None)

PowerCurvePoint(row) ==
    [timestamp |-> row.ts, power |-> row.power, irradiance |-> row.irradiance]

get_power_curve(logger_id, date, plan) ==
    LET df == build_power_curve_query(logger_id, date)
        rng == range_query({logger_id})
        data == [i \in 1 .. Len(df) |-> PowerCurvePoint(df[i])]
        q1 == <<"power_curve">>
        q2 == <<"power_curve", "range">>
    IN  IF Execute(plan, 1, Some(date)) # "ok"
        THEN Raised(q1, Execute(plan, 1, Some(date)))
        ELSE IF df = <<>>
        THEN IF Execute(plan, 2, None) # "ok"
             THEN Raised(q2, Execute(plan, 2, None))
             ELSE Returned(q2,
                      [type |-> "timeseries", loggerId |-> logger_id, date |-> date,
                       status |-> Some(StatusOf(rng)),
                       availableRange |-> Some(RangeOf(rng)),
                       recordCount |-> None, data |-> <<>>, summaryStats |-> None,
                       message |-> Some("No data"), context |-> None])
        ELSE Returned(q1,
                 [type |-> "timeseries", loggerId |-> logger_id, date |-> date,
                  status |-> None, availableRange |-> None,
                  recordCount |-> Some(Len(data)), data |-> data,
                  summaryStats |-> Some(calculate_power_curve_stats(df)),
                  message |-> None,
                  context |->
                      Some(_build_power_curve_context(calculate_power_curve_stats(df)))])

---------------------------------------------------------------------------
(* database.py *)

\* a get_anchor_date that would also keep the wall-clock fallback
get_anchor_date_caching_fallback(plan, k) ==
    IF ~IsNone(anchor_cache)
    THEN [value |-> Val(anchor_cache), cache |-> anchor_cache, queries |-> <<>>]
    ELSE IF PlanAt(plan, k) = "ok" /\ store # {}
    THEN [value |-> Max({r.ts : r \in store}),
          cache |-> Some(Max({r.ts : r \in store})), queries |-> <<"anchor">>]
    ELSE [value |-> now, cache |-> Some(now), queries |-> <<"anchor">>]

\* get_anchor_date as the k-th statement of a call: the cached value if
\* there is one; else MAX("timestamp"), cached when the table has a row;
\* on an empty table or any exception the wall clock, uncached
get_anchor_date(plan, k) ==
    IF ~IsNone(anchor_cache)
    THEN [value |-> Val(anchor_cache), cache |-> anchor_cache, queries |-> <<>>]
    ELSE IF PlanAt(plan, k) = "ok" /\ store # {}
    THEN [value |-> Max({r.ts : r \in store}),
          cache |-> Some(Max({r.ts : r \in store})), queries |-> <<"anchor">>]
    ELSE [value |-> now, cache |-> None, queries |-> <<"anchor">>]

get_anchor_date_str(plan, k) ==
    [get_anchor_date(plan, k) EXCEPT !.value = DateOf(@)]

\* execute_query under @retry: the statement is run until it succeeds, at
\* most three times, and only a transient failure is followed by another
\* run; the planned outcome of run i is plan[i]
stop_after_attempt == 3

RECURSIVE Attempt(_, _)
Attempt(plan, i) ==
    IF PlanAt(plan, i) = "ok"
    THEN [kind |-> "rows", queries |-> [j \in 1 .. i |-> "statement"]]
    ELSE IF PlanAt(plan, i) \notin Transient
    THEN [kind |-> "raised", queries |-> [j \in 1 .. i |-> "statement"],
          exc |-> PlanAt(plan, i)]
    ELSE IF i >= stop_after_attempt
    THEN [kind |-> "raised", queries |-> [j \in 1 .. i |-> "statement"],
          exc |-> "RetryError"]
    ELSE Attempt(plan, i + 1)

execute_query(plan) == Attempt(plan, 1)

---------------------------------------------------------------------------
(* tools/comparison.py *)

SeqToSet(s) == {s[i] : i \in 1 .. Len(s)}

\* one pivot row: the timestamp and, per listed logger that has a column,
\* its value at that timestamp (None where it has none)
ComparisonPoint(S, ts, columns, metric) ==
    [timestamp |-> ts,
     values |-> [l \in columns |->
                    IF \E r \in S : r.loggerId = l /\ r.ts = ts
                    THEN MetricValue(CHOOSE r \in S : r.loggerId = l /\ r.ts = ts, metric)
                    ELSE None]]

\* a variant admitting six ids, against which C9 is tested
InvalidIdCountUpToSix(logger_ids) == Len(logger_ids) < 2 \/ Len(logger_ids) > 6

InvalidIdCount(logger_ids) == Len(logger_ids) < 2 \/ Len(logger_ids) > 5

\* logger_stats: per listed logger with a column, the sum and the count of
\* its values (avg = sum / n)
LoggerStats(valued, columns, metric) ==
    [l \in columns |->
        LET V == OrderByTs({r \in valued : r.loggerId = l})
        IN  [sum |-> SumSeq([i \in 1 .. Len(V) |-> Val(MetricValue(V[i], metric))]),
             n |-> Len(V)]]

AvgLess(a, b) == a.sum * b.n < b.sum * a.n

\* the loop over logger_stats: the first logger of the highest average and
\* the first of the lowest, None when no logger has statistics
BestLogger(order, stats) ==
    IF Len(order) = 0 THEN None
    ELSE LET i == CHOOSE i \in 1 .. Len(order) :
                      /\ \A j \in 1 .. Len(order) : ~AvgLess(stats[order[i]], stats[order[j]])
                      /\ \A j \in 1 .. i - 1 : AvgLess(stats[order[j]], stats[order[i]])
         IN  Some(order[i])

WorstLogger(order, stats) ==
    IF Len(order) = 0 THEN None
    ELSE LET i == CHOOSE i \in 1 .. Len(order) :
                      /\ \A j \in 1 .. Len(order) : ~AvgLess(stats[order[j]], stats[order[i]])
                      /\ \A j \in 1 .. i - 1 : AvgLess(stats[order[i]], stats[order[j]])
         IN  Some(order[i])

\* spread_percent, a fraction
SpreadPercent(best, worst, stats) ==
    IF IsNone(best) \/ stats[Val(best)].sum <= 0 THEN Frac(0, 1)
    ELSE LET b == stats[Val(best)]
             w == stats[Val(worst)]
         IN  Frac((b.sum * w.n - w.sum * b.n) * 100, b.sum * w.n)

\* the alert, set from a spread of 40 on
ComparisonAlertInclusive(spread_percent, worst) ==
    IF ~Below(spread_percent, 40) THEN Some(Val(worst) \o " is underperforming by") ELSE None

ComparisonAlert(spread_percent, worst) ==
    IF Above(spread_percent, 40) THEN Some(Val(worst) \o " is underperforming by") ELSE None

ComparisonSummary(spread_percent, best, worst, stats) ==
    IF Cardinality(DOMAIN stats) >= 2 /\ ~IsNone(best) /\ ~IsNone(worst)
    THEN IF Below(spread_percent, 10)
         THEN <<"Your inverters are performing consistently">>
         ELSE IF Below(spread_percent, 30)
         THEN <<"Comparing", Val(best), "leads with the highest", Val(worst), "trails">>
         ELSE <<"There's a significant difference between your inverters",
                Val(best), "is your best performer, outproducing", Val(worst)>>
    ELSE <<"Comparing">>

ComparisonInsights(spread_percent, best, worst, stats) ==
    When(~IsNone(best),
         build_performance_insight("Top performer: " \o Val(best), "info"))
    \o When(~IsNone(worst) /\ worst # best /\ Above(spread_percent, 15),
            build_performance_insight(
                "Underperformer: " \o Val(worst),
                IF Above(spread_percent, 30) THEN "warning" ELSE "info"))
    \o When(Below(spread_percent, 10) /\ Cardinality(DOMAIN stats) >= 2,
            build_performance_insight("Consistent fleet performance", "info"))

ComparisonNextSteps(spread_percent, best, worst) ==
    When(~IsNone(worst) /\ Above(spread_percent, 20),
         build_next_step("Investigate " \o Val(worst),
                         IF Above(spread_percent, 30) THEN "recommended" ELSE "suggested",
                         "analyze_inverter_health"))
    \o When(~IsNone(best),
            build_next_step("View " \o Val(best) \o " power curve", "suggested",
                            "get_power_curve"))
    \o <<build_next_step("Compare on another metric", "optional", "compare_loggers")>>

_build_comparison_context(logger_ids, logger_stats) ==
    LET order == SelectSeq(logger_ids, LAMBDA l : l \in DOMAIN logger_stats)
        best_logger == BestLogger(order, logger_stats)
        worst_logger == WorstLogger(order, logger_stats)
        spread_percent == SpreadPercent(best_logger, worst_logger, logger_stats)
    IN  ContextEnvelope(
            ComparisonSummary(spread_percent, best_logger, worst_logger, logger_stats),
            Take(ComparisonInsights(spread_percent, best_logger, worst_logger,
                                    logger_stats), 3),
            Take(ComparisonNextSteps(spread_percent, best_logger, worst_logger), 3),
            IF Below(spread_percent, 15) THEN "success"
            ELSE IF Below(spread_percent, 40) THEN "warning"
            ELSE "danger",
            ComparisonAlert(spread_percent, worst_logger))

compare_loggers(logger_ids, metric, date, plan) ==
    LET df == build_comparison_query(logger_ids, ~IsNone(date),
                                     IF IsNone(date) THEN 0 ELSE Val(date))
        rng == range_query(SeqToSet(logger_ids))
        valued == {r \in df : ~IsNone(MetricValue(r, metric))}
        columns == {r.loggerId : r \in valued}
        stamps == Ascending({r.ts : r \in valued})
        data == [i \in 1 .. Len(stamps) |->
                    ComparisonPoint(valued, stamps[i], columns, metric)]
        q1 == <<"comparison">>
        q2 == <<"comparison", "range">>
    IN  IF InvalidIdCount(logger_ids)
        THEN Returned(<<>>, [type |-> "error",
                             message |-> Some("Provide 2-5 logger IDs for comparison")])
        ELSE IF Execute(plan, 1, date) # "ok"
        THEN Raised(q1, Execute(plan, 1, date))
        ELSE IF df = {}
        THEN IF Execute(plan, 2, None) # "ok"
             THEN Raised(q2, Execute(plan, 2, None))
             ELSE Returned(q2,
                      [type |-> "comparison", metric |-> metric,
                       loggerIds |-> logger_ids, date |-> date,
                       status |-> Some(StatusOf(rng)),
                       availableRange |-> Some(RangeOf(rng)),
                       recordCount |-> None, data |-> <<>>,
                       message |-> Some("No data"), context |-> None])
        ELSE Returned(q1,
                 [type |-> "comparison", metric |-> metric,
                  loggerIds |-> logger_ids, date |-> date, status |-> None,
                  availableRange |-> None, recordCount |-> Some(Len(data)),
                  data |-> data, message |-> None,
                  context |->
                      Some(_build_comparison_context(
                               logger_ids, LoggerStats(valued, columns, metric)))])

---------------------------------------------------------------------------
(* tools/financial.py.  Energy in kWh, the rate in cents per kWh. *)

\* the sum of the values of a function
RECURSIVE SumOver(_, _)
SumOver(f, D) ==
    IF D = {} THEN 0
    ELSE LET d == CHOOSE x \in D : TRUE IN f[d] + SumOver(f, D \ {d})

FnSum(f) == SumOver(f, DOMAIN f)

co2_per_kwh == 85               \* 0.85 kg, in hundredths
kg_co2_per_tree_year == 21

\* trees_equivalent >= 1, for co2_offset_kg / kg_co2_per_tree_year
FinancialInsights(total_kwh) ==
    <<build_financial_insight("You're saving money", "info")>>
    \o When(total_kwh * co2_per_kwh >= 100 * kg_co2_per_tree_year,
            build_financial_insight("Environmental impact", "info"))
    \o <<build_financial_insight("Energy generated", "info")>>

FinancialNextSteps ==
    <<build_next_step("Check system efficiency", "suggested", "calculate_performance_ratio"),
      build_next_step("View your power production patterns", "suggested",
                      "get_power_curve"),
      build_next_step("Forecast future production", "optional", "forecast_production")>>

_build_financial_context(total_kwh) ==
    ContextEnvelope(<<"Your solar panels have saved you">>,
                    Take(FinancialInsights(total_kwh), 3),
                    Take(FinancialNextSteps, 3),
                    "success",
                    None)

calculate_financial_savings(logger_id, start_date, end_date, electricity_rate, plan) ==
    LET a == IF IsNone(end_date) THEN get_anchor_date_str(plan, 1)
             ELSE [value |-> Val(end_date), cache |-> anchor_cache, queries |-> <<>>]
        end == a.value
        k == Len(a.queries) + 1
        q == a.queries \o <<"financial">>
        bad == IF start_date = BadDate \/ end = BadDate THEN Some(BadDate) ELSE None
        df == build_financial_query(logger_id, start_date, end)
        total_kwh == FnSum(df)
        period == [start |-> start_date, end |-> end]
    IN  IF Execute(plan, k, bad) # "ok"
        THEN Done(Raised(q, Execute(plan, k, bad)), a.cache)
        ELSE IF DOMAIN df = {}
        THEN Done(Returned(q,
                      [type |-> "financial_report", loggerId |-> logger_id,
                       period |-> period, daysWithData |-> None,
                       totalEnergyKwh |-> None, savingsUsd |-> None,
                       co2OffsetKg |-> None, treesEquivalent |-> None,
                       message |-> Some("No energy data found for the specified period"),
                       context |-> None]),
                  a.cache)
        ELSE Done(Returned(q,
                      [type |-> "financial_report", loggerId |-> logger_id,
                       period |-> period,
                       daysWithData |-> Some(Cardinality(DOMAIN df)),
                       totalEnergyKwh |-> Some(total_kwh),
                       savingsUsd |-> Some(total_kwh * electricity_rate),
                       co2OffsetKg |-> Some(total_kwh * co2_per_kwh),
                       treesEquivalent |->
                           Some(Round(total_kwh * co2_per_kwh, 10 * kg_co2_per_tree_year)),
                       message |-> None,
                       context |-> Some(_build_financial_context(total_kwh))]),
                  a.cache)

---------------------------------------------------------------------------
(* tools/performance.py.  Capacity in half kilowatts, ratios in            *)
(* thousandths, a float that may be NaN as a record.                       *)

Num(v) == [nan |-> FALSE, v |-> v]
NaN == [nan |-> TRUE, v |-> 0]

\* rounding to the half kilowatt below
InferCapacityDown(peak_watts) == peak_watts \div 500

\* math.ceil(peak_watts / 500) * 0.5, in half kilowatts
InferCapacity(peak_watts) == (peak_watts + 499) \div 500

\* Series.clip(lower, upper): NaN stays NaN
Clip(x, lower, upper) ==
    IF x.nan THEN x
    ELSE IF x.v < lower THEN Num(lower)
    ELSE IF x.v > upper THEN Num(upper)
    ELSE x

\* power / (irradiance * capacity_kw * 0.15 * 10), clipped to [0, 1.5];
\* four times the theoretical power is 3 * irradiance * capacity, and a
\* division by 0.0 gives NaN for 0/0 and an infinity otherwise
RatioOf(row, capacity) ==
    LET p == Val(row.power)
        t4 == 3 * Val(row.irradiance) * capacity
        raw == IF t4 = 0
               THEN IF p = 0 THEN NaN
                    ELSE IF p > 0 THEN Num(max_performance_ratio + 1)
                    ELSE Num(0 - 1)
               ELSE IF t4 < 0 THEN Num((0 - 4000 * p) \div (0 - t4))
               ELSE Num((4000 * p) \div t4)
    IN  Clip(raw, 0, max_performance_ratio)

\* Series.mean(), which skips NaN: the sum and the count of the numbers
MeanOf(xs) ==
    LET nums == SelectSeq(xs, LAMBDA x : ~x.nan)
    IN  IF nums = <<>> THEN [nan |-> TRUE, sum |-> 0, n |-> 1]
        ELSE [nan |-> FALSE, sum |-> SumSeq([i \in 1 .. Len(nums) |-> nums[i].v]),
              n |-> Len(nums)]

\* pr_percent >= pct, where pr_percent = mean * 100; false on NaN
PrAtLeast(mean, pct) == ~mean.nan /\ mean.sum >= pct * 10 * mean.n

PrStatus(mean) ==
    IF PrAtLeast(mean, 80) THEN "normal"
    ELSE IF PrAtLeast(mean, 60) THEN "low"
    ELSE "critical"

\* round(pr_percent, 1), in tenths of a percent
PrRounded(mean) == IF mean.nan THEN NaN ELSE Num(Round(mean.sum, mean.n))

PerformanceNextSteps(status) ==
    (IF status # "normal"
     THEN <<build_next_step("Check for system issues",
                            IF status = "critical" THEN "urgent" ELSE "recommended",
                            "analyze_inverter_health"),
            build_next_step("Look for error codes", "recommended", "diagnose_error_codes")>>
     ELSE <<build_next_step("View production patterns", "suggested", "get_power_curve"),
            build_next_step("Calculate your savings", "suggested",
                            "calculate_financial_savings")>>)
    \o <<build_next_step("Compare with other inverters", "optional", "compare_loggers")>>

PerformanceInsights(status, peak_power, avg_irradiance) ==
    <<build_performance_insight(
          CASE status = "normal" -> "Good efficiency"
            [] status = "low" -> "Low efficiency"
            [] OTHER -> "Critical efficiency",
          CASE status = "normal" -> "info"
            [] status = "low" -> "warning"
            [] OTHER -> "critical")>>
    \o When(peak_power > 0, build_performance_insight("Peak output", "info"))
    \o When(Above(avg_irradiance, 0),
            build_performance_insight(
                IF Above(avg_irradiance, 700) THEN "Excellent sunlight conditions"
                ELSE IF Above(avg_irradiance, 400) THEN "Good sunlight conditions"
                ELSE IF Above(avg_irradiance, 200) THEN "Moderate sunlight conditions"
                ELSE "Limited sunlight conditions",
                "info"))

\* a critical ratio without its alert
PerformanceAlertNever(status) == None

PerformanceAlert(status) ==
    IF status = "critical" THEN Some("System efficiency - investigation needed") ELSE None

_build_performance_context(status, peak_power, avg_irradiance) ==
    ContextEnvelope(
        CASE status = "normal" -> <<"Great news!", "within the healthy range">>
          [] status = "low" -> <<"below optimal">>
          [] OTHER -> <<"Attention needed:", "significantly below normal">>,
        Take(PerformanceInsights(status, peak_power, avg_irradiance), 3),
        Take(PerformanceNextSteps(status), 3),
        CASE status = "normal" -> "success"
          [] status = "critical" -> "danger"
          [] OTHER -> "warning",
        PerformanceAlert(status))

PerformanceNoResult(logger_id, date, capacity, status, range, message) ==
    [type |-> "performance_report", loggerId |-> logger_id, date |-> date,
     inferredCapacityKw |-> capacity, performanceRatio |-> None,
     status |-> status, availableRange |-> range, dataPoints |-> None,
     peakPowerWatts |-> None, avgIrradiance |-> None,
     message |-> Some(message), context |-> None]

calculate_performance_ratio(logger_id, date, capacity_kw, plan) ==
    LET infer == IsNone(capacity_kw)
        peak == build_peak_power_query(logger_id)
        capacity == IF infer THEN InferCapacity(Val(peak)) ELSE Val(capacity_kw)
        k == IF infer THEN 2 ELSE 1
        q0 == IF infer THEN <<"peak_power">> ELSE <<>>
        q1 == q0 \o <<"performance">>
        q2 == q1 \o <<"range">>
        df == build_performance_query(logger_id, date)
        rng == range_query({logger_id})
        ratio == [i \in 1 .. Len(df) |-> RatioOf(df[i], capacity)]
        mean == MeanOf(ratio)
        peak_power == Max({Val(df[i].power) : i \in 1 .. Len(df)})
        avg_irradiance ==
            Frac(SumSeq([i \in 1 .. Len(df) |-> Val(df[i].irradiance)]), Len(df))
    IN  IF infer /\ Execute(plan, 1, None) # "ok"
        THEN Raised(q0, Execute(plan, 1, None))
        ELSE IF infer /\ IsNone(peak)
        THEN Returned(q0, PerformanceNoResult(logger_id, date, None, None, None,
                              "Cannot infer system capacity - no power data found"))
        ELSE IF Execute(plan, k, Some(date)) # "ok"
        THEN Raised(q1, Execute(plan, k, Some(date)))
        ELSE IF df = <<>>
        THEN IF Execute(plan, k + 1, None) # "ok"
             THEN Raised(q2, Execute(plan, k + 1, None))
             ELSE Returned(q2, PerformanceNoResult(logger_id, date, Some(capacity),
                                   Some(StatusOf(rng)), Some(RangeOf(rng)), "No data"))
        ELSE Returned(q1,
                 [type |-> "performance_report", loggerId |-> logger_id, date |-> date,
                  inferredCapacityKw |-> Some(capacity),
                  performanceRatio |-> Some(PrRounded(mean)),
                  status |-> Some(PrStatus(mean)), availableRange |-> None,
                  dataPoints |-> Some(Len(df)),
                  peakPowerWatts |-> Some(peak_power),
                  avgIrradiance |-> Some(avg_irradiance), message |-> None,
                  context |->
                      Some(_build_performance_context(PrStatus(mean), peak_power,
                                                      avg_irradiance))])

---------------------------------------------------------------------------
(* tools/forecasting.py *)

\* n^2 (n-1) times the sample variance of the values of f
ScaledVariance(f) ==
    LET n == Cardinality(DOMAIN f)
        dev == [d \in DOMAIN f |-> (n * f[d] - FnSum(f)) * (n * f[d] - FnSum(f))]
    IN  FnSum(dev)

\* cv = std / avg if avg > 0 else 1; cv < pct / 100
CvBelow(f, pct) ==
    LET n == Cardinality(DOMAIN f)
    IN  IF FnSum(f) > 0
        THEN 10000 * ScaledVariance(f) < pct * pct * FnSum(f) * FnSum(f) * (n - 1)
        ELSE 100 < pct

\* cv <= pct / 100
CvAtMost(f, pct) ==
    LET n == Cardinality(DOMAIN f)
    IN  IF FnSum(f) > 0
        THEN 10000 * ScaledVariance(f) <= pct * pct * FnSum(f) * FnSum(f) * (n - 1)
        ELSE 100 <= pct

\* a confidence whose thresholds belong to the class below them, against
\* which C16 is tested
ConfidenceInclusive(f) ==
    IF CvAtMost(f, 15) THEN "high" ELSE IF CvAtMost(f, 30) THEN "medium" ELSE "low"

Confidence(f) ==
    IF CvBelow(f, 15) THEN "high" ELSE IF CvBelow(f, 30) THEN "medium" ELSE "low"

\* the largest r with r * r <= x, for x below 2^31
RECURSIVE IsqrtIn(_, _, _)
IsqrtIn(x, lo, hi) ==
    IF lo = hi THEN lo
    ELSE LET mid == (lo + hi + 1) \div 2
         IN  IF mid * mid <= x THEN IsqrtIn(x, mid, hi) ELSE IsqrtIn(x, lo, mid - 1)

Isqrt(x) == IsqrtIn(x, 0, IF x < 46340 THEN x ELSE 46340)

\* df["dailyKwh"].std(), the sample deviation: 200 n std rounded down and
\* rounded up
StdDown(f) == Isqrt((40000 * ScaledVariance(f)) \div (Cardinality(DOMAIN f) - 1))
StdUp(f) ==
    IF StdDown(f) * StdDown(f) * (Cardinality(DOMAIN f) - 1) = 40000 * ScaledVariance(f)
    THEN StdDown(f)
    ELSE StdDown(f) + 1

\* round(std_daily, 2), in hundredths
StdDevKwh(f) ==
    LET n == Cardinality(DOMAIN f) IN (StdDown(f) + n) \div (2 * n)

\* a lower bound that is not held at zero, against which C15 is tested
RangeMinUnclamped(f) ==
    LET n == Cardinality(DOMAIN f)
    IN  (200 * FnSum(f) + n - StdUp(f)) \div (2 * n)

\* round(max(0, avg_daily - std_daily), 2), in hundredths
RangeMin(f) ==
    LET n == Cardinality(DOMAIN f)
        below == (200 * FnSum(f) + n - StdUp(f)) \div (2 * n)
    IN  IF below < 0 THEN 0 ELSE below

\* round(avg_daily + std_daily, 2), in hundredths
RangeMax(f) ==
    LET n == Cardinality(DOMAIN f)
    IN  (200 * FnSum(f) + n + StdDown(f)) \div (2 * n)

ForecastInsights(confidence) ==
    <<build_performance_insight("Expected total", "info"),
      build_performance_insight(confidence \o " confidence forecast", "info"),
      build_financial_insight("Estimated savings ahead", "info")>>

ForecastNextSteps ==
    <<build_next_step("View recent production patterns", "suggested", "get_power_curve"),
      build_next_step("Check system efficiency", "suggested",
                      "calculate_performance_ratio"),
      build_next_step("Calculate actual savings to date", "optional",
                      "calculate_financial_savings")>>

_build_forecast_context(confidence) ==
    ContextEnvelope(
        CASE confidence = "high" -> <<"Based on your recent production history">>
          [] confidence = "medium" -> <<"Looking ahead">>
          [] OTHER -> <<"Your production has varied quite a bit recently">>,
        Take(ForecastInsights(confidence), 3),
        Take(ForecastNextSteps, 3),
        CASE confidence = "high" -> "success"
          [] confidence = "medium" -> "neutral"
          [] OTHER -> "warning",
        None)

forecast_production(logger_id, days_ahead, plan) ==
    LET df == build_forecast_query(logger_id)
        n == Cardinality(DOMAIN df)
        a == get_anchor_date(plan, 2)
        q == <<"forecast">> \o a.queries
        forecasts == [i \in 1 .. days_ahead |->
                         [date |-> DateOf(a.value) + i,
                          expectedKwh |-> Round(100 * FnSum(df), n),
                          rangeMin |-> RangeMin(df),
                          rangeMax |-> RangeMax(df),
                          confidence |-> Confidence(df)]]
        historical_stats == [averageKwh |-> Round(100 * FnSum(df), n),
                             stdDevKwh |-> StdDevKwh(df),
                             minKwh |-> 100 * Min({df[d] : d \in DOMAIN df}),
                             maxKwh |-> 100 * Max({df[d] : d \in DOMAIN df})]
    IN  IF Execute(plan, 1, None) # "ok"
        THEN Done(Raised(<<"forecast">>, Execute(plan, 1, None)), anchor_cache)
        ELSE IF n < forecast_min_history_days
        THEN Done(Returned(<<"forecast">>,
                      [type |-> "production_forecast", loggerId |-> logger_id,
                       method |-> None, basedOnDays |-> None,
                       historicalStats |-> None, forecasts |-> <<>>,
                       message |-> Some("Insufficient historical data for forecasting"),
                       context |-> None]),
                  anchor_cache)
        ELSE Done(Returned(q,
                      [type |-> "production_forecast", loggerId |-> logger_id,
                       method |-> Some("historical_average"), basedOnDays |-> Some(n),
                       historicalStats |-> Some(historical_stats),
                       forecasts |-> forecasts, message |-> None,
                       context |-> Some(_build_forecast_context(Confidence(df)))]),
                  a.cache)

---------------------------------------------------------------------------
(* error_codes.py and tools/diagnostics.py *)

\* ERROR_CODES, restricted to the codes the model's devices emit
ErrorDefinition(description, severity, fix) ==
    [description |-> description, severity |-> severity, fix |-> fix]

ERROR_CODES ==
    [goodwe |->
         [E001 |-> ErrorDefinition("Grid Voltage Out of Range", "warning",
                                   "Check grid connection and voltage stability"),
          E003 |-> ErrorDefinition("DC Voltage Too High", "critical",
                                   "Check PV string configuration")],
     lti |->
         [F01 |-> ErrorDefinition("Communication Timeout", "warning",
                                  "Check network connection"),
          F03 |-> ErrorDefinition("Data Logging Error", "info",
                                  "Check storage capacity and retry")],
     meier |->
         [W100 |-> ErrorDefinition("Low Production Warning", "info",
                                   "May be due to weather - monitor"),
          W101 |-> ErrorDefinition("Yield Below Expected", "info",
                                   "Check for shading or soiling"),
          E100 |-> ErrorDefinition("Inverter Offline", "critical",
                                   "Check inverter power supply"),
          E102 |-> ErrorDefinition("DC Input Error", "warning",
                                   "Check PV array connections")]]

\* ERROR_CODES.get(logger_type, {}).get(code): None when the type has no
\* table or the table no such code
get_error_definition(logger_type, code) ==
    IF logger_type \in DOMAIN ERROR_CODES /\ code \in DOMAIN ERROR_CODES[logger_type]
    THEN Some(ERROR_CODES[logger_type][code])
    ELSE None

severity_order(severity) ==
    IF severity = "critical" THEN 0
    ELSE IF severity = "warning" THEN 1
    ELSE IF severity = "info" THEN 2
    ELSE 3

\* the codes of a scan in the order of their first row
RECURSIVE CodesInOrder(_)
CodesInOrder(df) ==
    IF df = <<>> THEN <<>>
    ELSE LET rest == CodesInOrder(SubSeq(df, 1, Len(df) - 1))
             code == Val(df[Len(df)].errorCode)
         IN  IF code \in SeqToSet(rest) THEN rest ELSE Append(rest, code)

\* the entry that stands in for a missing definition; a description is the
\* sequence of the parts of its text
UnknownDefinition(code) ==
    ErrorDefinition(<<"Unknown error code: ", code>>, "warning",
                    "Consult manufacturer documentation")

\* a lookup that takes every code of a type without a table for the first
\* code of the goodwe table, against which C19 is tested
DefinitionOfDefaulted(logger_type, code) ==
    LET found == get_error_definition(logger_type, code)
    IN  IF ~IsNone(found)
        THEN [Val(found) EXCEPT !.description = <<Val(found).description>>]
        ELSE IF logger_type \notin DOMAIN ERROR_CODES
        THEN [ERROR_CODES.goodwe.E001 EXCEPT
                  !.description = <<ERROR_CODES.goodwe.E001.description>>]
        ELSE UnknownDefinition(code)

DefinitionOf(logger_type, code) ==
    LET found == get_error_definition(logger_type, code)
    IN  IF IsNone(found) THEN UnknownDefinition(code)
        ELSE [Val(found) EXCEPT !.description = <<Val(found).description>>]

DiagnosticIssue(df, logger_type, code) ==
    LET rows == SelectSeq(df, LAMBDA r : Val(r.errorCode) = code)
        definition == DefinitionOf(logger_type, code)
    IN  [code |-> code,
         description |-> definition.description,
         severity |-> definition.severity,
         suggestedFix |-> definition.fix,
         occurrences |-> Len(rows),
         firstSeen |-> rows[1].ts,
         lastSeen |-> rows[Len(rows)].ts]

\* a sort key of the severity alone, against which C17 is tested
KeyLessSeverityOnly(a, b) == severity_order(a.severity) < severity_order(b.severity)

\* the sort key (severity_order, -occurrences), compared as tuples
KeyLess(a, b) ==
    \/ severity_order(a.severity) < severity_order(b.severity)
    \/ /\ severity_order(a.severity) = severity_order(b.severity)
       /\ a.occurrences > b.occurrences

\* list.sort(key=...): stable
RECURSIVE SortIssues(_)
SortIssues(s) ==
    IF s = <<>> THEN <<>>
    ELSE LET sorted == SortIssues(SubSeq(s, 1, Len(s) - 1))
             x == s[Len(s)]
             before == SelectSeq(sorted, LAMBDA y : ~KeyLess(x, y))
             after == SelectSeq(sorted, LAMBDA y : KeyLess(x, y))
         IN  before \o <<x>> \o after

OverallHealth(issues) ==
    IF \E i \in 1 .. Len(issues) : issues[i].severity = "critical" THEN "critical"
    ELSE IF \E i \in 1 .. Len(issues) : issues[i].severity = "warning" THEN "warning"
    ELSE IF issues # <<>> THEN "info"
    ELSE "good"

CountOf(issues, severity) ==
    Cardinality({i \in 1 .. Len(issues) : issues[i].severity = severity})

DiagnosticsAlert(issues) ==
    IF CountOf(issues, "critical") > 0 THEN Some("critical error(s) require attention")
    ELSE None

DiagnosticsInsights(issues, overall_health) ==
    <<build_operational_insight(
          "System health: " \o overall_health,
          CASE overall_health = "critical" -> "critical"
            [] overall_health = "warning" -> "warning"
            [] OTHER -> "info")>>
    \o (IF issues # <<>>
        THEN <<build_operational_insight(
                   "Top issue: " \o issues[1].code,
                   CASE issues[1].severity = "critical" -> "critical"
                     [] issues[1].severity = "warning" -> "warning"
                     [] OTHER -> "info")>>
             \o When(issues[1].suggestedFix # "",
                     build_operational_insight("Recommended action", "info"))
        ELSE <<>>)

DiagnosticsNextSteps(issues) ==
    (IF CountOf(issues, "critical") > 0
     THEN <<build_next_step("Check system performance", "urgent",
                            "analyze_inverter_health"),
            build_next_step("View production patterns", "recommended", "get_power_curve")>>
     ELSE IF CountOf(issues, "warning") > 0
     THEN <<build_next_step("Monitor system health", "recommended",
                            "analyze_inverter_health"),
            build_next_step("Check system efficiency", "suggested",
                            "calculate_performance_ratio")>>
     ELSE <<build_next_step("View production summary", "suggested", "get_power_curve"),
            build_next_step("Calculate your savings", "suggested",
                            "calculate_financial_savings")>>)
    \o <<build_next_step("Compare with other inverters", "optional", "compare_loggers")>>

_build_diagnostics_context(issues, overall_health) ==
    ContextEnvelope(
        IF issues = <<>> THEN <<"Great news!", "no error codes">>
        ELSE IF CountOf(issues, "critical") > 0 THEN <<"Attention needed:", "critical issue(s)">>
        ELSE IF CountOf(issues, "warning") > 0 THEN <<"warning(s)">>
        ELSE <<"informational message(s)">>,
        Take(DiagnosticsInsights(issues, overall_health), 3),
        Take(DiagnosticsNextSteps(issues), 3),
        CASE overall_health = "good" -> "success"
          [] overall_health = "critical" -> "danger"
          [] overall_health = "warning" -> "warning"
          [] OTHER -> "neutral",
        DiagnosticsAlert(issues))

diagnose_error_codes(logger_id, days, plan) ==
    LET type_df == build_logger_type_query(logger_id)
        df == build_error_scan_query(logger_id, days)
        codes == CodesInOrder(df)
        issues == SortIssues([i \in 1 .. Len(codes) |->
                                 DiagnosticIssue(df, Val(type_df), codes[i])])
        q1 == <<"logger_type">>
        q2 == <<"logger_type", "error_scan">>
    IN  IF Execute(plan, 1, None) # "ok"
        THEN Raised(q1, Execute(plan, 1, None))
        ELSE IF IsNone(type_df)
        THEN Returned(q1,
                 [type |-> "diagnostics_report", loggerId |-> logger_id,
                  loggerType |-> None, overallHealth |-> None, issueCount |-> None,
                  issues |-> <<>>, summary |-> None,
                  message |-> Some("Logger not found"), context |-> None])
        ELSE IF Execute(plan, 2, None) # "ok"
        THEN Raised(q2, Execute(plan, 2, None))
        ELSE Returned(q2,
                 [type |-> "diagnostics_report", loggerId |-> logger_id,
                  loggerType |-> type_df, overallHealth |-> Some(OverallHealth(issues)),
                  issueCount |-> Some(Len(issues)),
                  issues |-> Take(issues, diagnostic_issue_limit),
                  summary |-> Some(IF issues # <<>> THEN "Found issue(s)"
                                   ELSE "No errors detected - System health: GOOD"),
                  message |-> None,
                  context |->
                      Some(_build_diagnostics_context(issues, OverallHealth(issues)))])

---------------------------------------------------------------------------
(* tools/fleet.py.  A sampling slot is longer than the 15-minute active    *)
(* window, so the window holds the rows of the current slot.               *)

\* rows since NOW() - INTERVAL '15 minutes'
build_fleet_power_query ==
    LET S == {r \in store : r.ts >= now}
        powered == {r \in S : ~IsNone(r.power)}
        readings == OrderByTs(powered)
        lit == OrderByTs({r \in S : ~IsNone(r.irradiance)})
    IN  [activeLoggers |-> Cardinality({r.loggerId : r \in S}),
         totalPowerWatts |->
             IF powered = {} THEN None
             ELSE Some(SumSeq([i \in 1 .. Len(readings) |-> Val(readings[i].power)])),
         \* AVG(irradiance), as the fraction sum / count
         avgIrradiance |->
             IF Len(lit) = 0 THEN None
             ELSE Some(Frac(SumSeq([i \in 1 .. Len(lit) |-> Val(lit[i].irradiance)]),
                            Len(lit)))]

\* the sum over loggers of MAX(energy) on CURRENT_DATE
build_fleet_energy_query ==
    LET S == {r \in store : DateOf(r.ts) = DateOf(now)}
        dailyKwh == [l \in {r.loggerId : r \in S} |->
                        LET E == {Val(r.energy) :
                                  r \in {x \in S : x.loggerId = l /\ ~IsNone(x.energy)}}
                        IN  IF E = {} THEN None ELSE Some(Max(E))]
        valued == {l \in DOMAIN dailyKwh : ~IsNone(dailyKwh[l])}
    IN  IF valued = {} THEN None
        ELSE Some(FnSum([l \in valued |-> Val(dailyKwh[l])]))

build_fleet_count_query == Cardinality({r.loggerId : r \in store})

\* percent_online > 90 taken as percent_online >= 90
FleetHealthInclusive(active_loggers, total_loggers) ==
    IF total_loggers > 0 /\ active_loggers * 100 >= 90 * total_loggers THEN "Healthy"
    ELSE IF total_loggers > 0 /\ active_loggers * 100 > 50 * total_loggers THEN "Degraded"
    ELSE "Critical"

FleetHealth(active_loggers, total_loggers) ==
    IF total_loggers > 0 /\ active_loggers * 100 > 90 * total_loggers THEN "Healthy"
    ELSE IF total_loggers > 0 /\ active_loggers * 100 > 50 * total_loggers THEN "Degraded"
    ELSE "Critical"

FleetInsights(fleet_health, total_power, avg_irradiance) ==
    <<build_operational_insight(
          CASE fleet_health = "Healthy" -> "All systems operational"
            [] fleet_health = "Degraded" -> "device(s) offline"
            [] OTHER -> "Many devices offline",
          CASE fleet_health = "Healthy" -> "info"
            [] fleet_health = "Degraded" -> "warning"
            [] OTHER -> "critical")>>
    \o When(total_power > 0, build_performance_insight("Current generation", "info"))
    \o When(Above(avg_irradiance, 0),
            build_performance_insight(
                IF Above(avg_irradiance, 800) THEN "Excellent sunlight"
                ELSE IF Above(avg_irradiance, 500) THEN "Good sunlight"
                ELSE IF Above(avg_irradiance, 200) THEN "Moderate sunlight"
                ELSE "Low sunlight",
                "info"))

FleetNextSteps(fleet_health) ==
    When(fleet_health # "Healthy",
         build_next_step("Check which devices are offline",
                         IF fleet_health = "Critical" THEN "urgent" ELSE "recommended",
                         "list_loggers"))
    \o <<build_next_step("View detailed performance for your best inverter",
                         "suggested", "get_power_curve"),
         build_next_step("Calculate your energy savings",
                         "suggested", "calculate_financial_savings")>>

\* the alert of the fleet overview, Critical health before the mismatch
FleetAlertHealthFirst(fleet_health, date_mismatch) ==
    IF fleet_health = "Critical" THEN Some("Only % of devices online")
    ELSE IF ~IsNone(date_mismatch) THEN Some("Showing data from")
    ELSE None

FleetAlert(fleet_health, date_mismatch) ==
    IF ~IsNone(date_mismatch) THEN Some("Showing data from")
    ELSE IF fleet_health = "Critical" THEN Some("Only % of devices online")
    ELSE None

_build_fleet_context(fleet_health, total_power, avg_irradiance, date_mismatch) ==
    LET date_warning == When(~IsNone(date_mismatch), "Note: This data is from")
        summary ==
            date_warning \o
            <<CASE fleet_health = "Healthy" -> "Your solar site is running smoothly!"
                [] fleet_health = "Degraded" -> "Your site is generating"
                [] OTHER -> "Attention needed:">>
    IN  ContextEnvelope(summary,
                        Take(FleetInsights(fleet_health, total_power, avg_irradiance), 3),
                        Take(FleetNextSteps(fleet_health), 3),
                        CASE fleet_health = "Healthy" -> "success"
                          [] fleet_health = "Critical" -> "danger"
                          [] OTHER -> "warning",
                        FleetAlert(fleet_health, date_mismatch))

get_fleet_overview(plan) ==
    LET power_df == build_fleet_power_query
        energy_df == build_fleet_energy_query
        total_loggers == build_fleet_count_query
        active_loggers == power_df.activeLoggers
        a == get_anchor_date(plan, 4)
        days_diff == DateOf(now) - DateOf(a.value)
        fleet_health == FleetHealth(active_loggers, total_loggers)
        total_power ==
            IF IsNone(power_df.totalPowerWatts) THEN 0 ELSE Val(power_df.totalPowerWatts)
        avg_irradiance ==
            IF IsNone(power_df.avgIrradiance) THEN Frac(0, 1)
            ELSE Val(power_df.avgIrradiance)
        date_mismatch == IF days_diff > 0 THEN Some(days_diff) ELSE None
        q3 == <<"fleet_power", "fleet_energy", "fleet_count">>
        failed == {k \in 1 .. 3 : Execute(plan, k, None) # "ok"}
    IN  IF failed # {}
        THEN Done(Raised(SubSeq(q3, 1, Min(failed)), Execute(plan, Min(failed), None)),
                  anchor_cache)
        ELSE Done(Returned(q3 \o a.queries,
                      [type |-> "fleet_overview", timestamp |-> a.value,
                       totalLoggers |-> total_loggers,
                       activeLoggers |-> active_loggers,
                       percentOnline |->
                           IF total_loggers > 0
                           THEN Round(active_loggers * 1000, total_loggers) ELSE 0,
                       fleetHealth |-> fleet_health,
                       currentTotalPowerWatts |-> total_power,
                       todayTotalEnergyKwh |->
                           IF IsNone(energy_df) THEN 0 ELSE Val(energy_df),
                       siteAvgIrradiance |-> avg_irradiance,
                       dateMismatch |-> date_mismatch,
                       context |->
                           Some(_build_fleet_context(fleet_health, total_power,
                                                     avg_irradiance, date_mismatch))]),
                  a.cache)

---------------------------------------------------------------------------
(* The transports: tools/__init__.py registers each function with the MCP  *)
(* server, which validates the arguments against the Field constraints of  *)
(* the signature; http_api.py calls the function with the request body.    *)

Tools ==
    {"analyze_inverter_health", "get_power_curve", "compare_loggers",
     "calculate_financial_savings", "calculate_performance_ratio",
     "forecast_production", "diagnose_error_codes", "get_fleet_overview"}

\* TOOL_REGISTRY[tool_name](**args)
Dispatch(tool, args, plan) ==
    CASE tool = "analyze_inverter_health" ->
             Done(analyze_inverter_health(args.logger_id, args.days, plan), anchor_cache)
      [] tool = "get_power_curve" ->
             Done(get_power_curve(args.logger_id, args.date, plan), anchor_cache)
      [] tool = "compare_loggers" ->
             Done(compare_loggers(args.logger_ids, args.metric, args.date, plan),
                  anchor_cache)
      [] tool = "calculate_financial_savings" ->
             calculate_financial_savings(args.logger_id, args.start_date, args.end_date,
                                         args.electricity_rate, plan)
      [] tool = "calculate_performance_ratio" ->
             Done(calculate_performance_ratio(args.logger_id, args.date,
                                              args.capacity_kw, plan), anchor_cache)
      [] tool = "forecast_production" ->
             forecast_production(args.logger_id, args.days_ahead, plan)
      [] tool = "diagnose_error_codes" ->
             Done(diagnose_error_codes(args.logger_id, args.days, plan), anchor_cache)
      [] tool = "get_fleet_overview" -> get_fleet_overview(plan)

Rejected == [kind |-> "rejected", queries |-> <<>>]

\* the ge/le constraints of the Annotated parameters
FieldViolation(tool, args) ==
    \/ tool = "analyze_inverter_health" /\ args.days \notin 1 .. 365
    \/ tool = "diagnose_error_codes" /\ args.days \notin 1 .. 30
    \/ tool = "forecast_production" /\ args.days_ahead \notin 1 .. 7
    \/ tool = "calculate_financial_savings" /\ args.electricity_rate \notin 1 .. 100

\* a call through the MCP server
mcp_tool(tool, args, plan) ==
    IF FieldViolation(tool, args) THEN Done(Rejected, anchor_cache)
    ELSE Dispatch(tool, args, plan)

\* POST /api/tools/{tool_name}: a body with a key the function does not
\* take is a TypeError (400); any other exception is a 500
call_tool(tool_name, body, plan) ==
    IF "unexpected" \in DOMAIN body THEN Done(Rejected, anchor_cache)
    ELSE Dispatch(tool_name, body, plan)

Transport(via, tool, args, plan) ==
    IF via = "http" THEN call_tool(tool, args, plan)
    ELSE IF via = "mcp" THEN mcp_tool(tool, args, plan)
    ELSE Dispatch(tool, args, plan)

---------------------------------------------------------------------------
(* The environment: ingestion writes measurements of the past and the      *)
(* present, the clock advances, an operator clears the anchor cache.       *)

Payload(p, g, e, c) == [power |-> p, irradiance |-> g, energy |-> e, errorCode |-> c]

Ingest(loggers, stamps, payloads, cap) ==
    /\ Cardinality(store) < cap
    /\ \E l \in loggers, ts \in stamps, m \in payloads :
          /\ ts <= now
          /\ \A r \in store : ~(r.loggerId = l /\ r.ts = ts)
          /\ store' = store \cup {Row(l, ts, m.power, m.irradiance, m.energy, m.errorCode)}
    /\ call' = NoCall
    /\ outcome' = NoOutcome
    /\ UNCHANGED <<now, anchor_cache>>

Tick ==
    /\ now < MaxNow
    /\ now' = now + 1
    /\ call' = NoCall
    /\ outcome' = NoOutcome
    /\ UNCHANGED <<store, anchor_cache>>

clear_anchor_cache ==
    /\ anchor_cache' = None
    /\ call' = NoCall
    /\ outcome' = NoOutcome
    /\ UNCHANGED <<store, now>>

\* one tool call, served to its end
Serve(vias, tool, argsets, plans) ==
    \E via \in vias, args \in argsets, plan \in plans :
        LET run == Transport(via, tool, args, plan)
        IN  /\ call' = [tool |-> tool, args |-> args, via |-> via, plan |-> plan]
            /\ outcome' = run.result
            /\ anchor_cache' = run.cache
            /\ UNCHANGED <<store, now>>

\* one use of the retrying executor
ExecuteQuery(plans) ==
    \E plan \in plans :
        /\ call' = [tool |-> "execute_query", args |-> <<>>, via |-> "direct",
                    plan |-> plan]
        /\ outcome' = execute_query(plan)
        /\ UNCHANGED <<store, now, anchor_cache>>

Init ==
    /\ store = {}
    /\ now = 0
    /\ anchor_cache = None
    /\ call = NoCall
    /\ outcome = NoOutcome

\* the plans of at most n statement outcomes drawn from a set
PlansOf(outcomes, n) == UNION {[1 .. k -> outcomes] : k \in 0 .. n}

Direct == {"direct"}
\* the devices asked about: one of the table and one that does not exist
LoggerIds == {"INV001", "UNKNOWN"}

\* the logger_ids lists: n consecutive ids of the pool from the first
\* (known devices first), and one pair of unknown devices
IdPool == <<"INV001", "INV002", "X1", "X2", "X3", "X4", "X5", "X6", "X7", "X8">>
IdLists == {SubSeq(IdPool, 1, n) : n \in 0 .. MaxIds} \cup {SubSeq(IdPool, 3, 4)}

HealthArgs(loggers, days) == [logger_id : loggers, days : days]
DateArgs(loggers, dates) == [logger_id : loggers, date : dates]
CompareArgs(lists, metrics, dates) == [logger_ids : lists, metric : metrics, date : dates]
FinancialArgs(loggers, starts, ends, rates) ==
    [logger_id : loggers, start_date : starts, end_date : ends, electricity_rate : rates]
PerformanceArgs(loggers, dates, capacities) ==
    [logger_id : loggers, date : dates, capacity_kw : capacities]
ForecastArgs(loggers, ahead) == [logger_id : loggers, days_ahead : ahead]
NoArgs == {<<>>}

---------------------------------------------------------------------------
(* Anomaly detection: one device, readings on both sides of the threshold *)

AnomalyReadings ==
    {Payload(Some(0), Some(anomaly_irradiance_threshold + 1), None, None),
     Payload(None, Some(anomaly_irradiance_threshold + 1), None, None),
     Payload(Some(1000), Some(anomaly_irradiance_threshold + 1), None, None),
     Payload(Some(0), Some(anomaly_irradiance_threshold), None, None),
     Payload(Some(0), None, None, None)}

IngestReadings == Ingest({"INV001"}, Timestamps, AnomalyReadings, MaxRows)

AnalyzeHealth ==
    Serve(Direct, "analyze_inverter_health",
          HealthArgs({"INV001", "UNKNOWN"}, {1, 2}), {NoFaults})

NextAnomaly == IngestReadings \/ Tick \/ AnalyzeHealth

SpecAnomaly == Init /\ [][NextAnomaly]_vars

---------------------------------------------------------------------------
(* Smart recovery: every tool, two devices, complete and blank rows *)

RecoveryRows == 2

Complete == Payload(Some(1000), Some(100), Some(5), Some("E001"))
Blank == Payload(None, None, None, None)

\* the first two slots and the last one
RecoveryStamps == {0, 1, MaxNow}

IngestRows == Ingest(KnownLoggers, RecoveryStamps, {Complete, Blank}, RecoveryRows)

RecoveryDates == {0, DateOf(MaxNow)}

CallAnalyzeInverterHealth ==
    Serve(Direct, "analyze_inverter_health", HealthArgs(LoggerIds, {1, 2}), {NoFaults})

CallGetPowerCurve ==
    Serve(Direct, "get_power_curve", DateArgs(LoggerIds, RecoveryDates), {NoFaults})

CallCompareLoggers ==
    Serve(Direct, "compare_loggers",
          CompareArgs(IdLists, {"power"}, {None, Some(0)}), {NoFaults})

CallCalculateFinancialSavings ==
    Serve(Direct, "calculate_financial_savings",
          FinancialArgs(LoggerIds, {0}, {None, Some(0)}, {20}), {NoFaults})

CallCalculatePerformanceRatio ==
    Serve(Direct, "calculate_performance_ratio",
          PerformanceArgs(LoggerIds, RecoveryDates, {None, Some(2)}), {NoFaults})

CallForecastProduction ==
    Serve(Direct, "forecast_production", ForecastArgs(LoggerIds, {1}), {NoFaults})

CallDiagnoseErrorCodes ==
    Serve(Direct, "diagnose_error_codes", HealthArgs(LoggerIds, {1}), {NoFaults})

CallGetFleetOverview == Serve(Direct, "get_fleet_overview", NoArgs, {NoFaults})

NextRecovery ==
    \/ IngestRows
    \/ Tick
    \/ clear_anchor_cache
    \/ CallAnalyzeInverterHealth
    \/ CallGetPowerCurve
    \/ CallCompareLoggers
    \/ CallCalculateFinancialSavings
    \/ CallCalculatePerformanceRatio
    \/ CallForecastProduction
    \/ CallDiagnoseErrorCodes
    \/ CallGetFleetOverview

SpecRecovery == Init /\ [][NextRecovery]_vars

---------------------------------------------------------------------------
(* Performance ratio: one device, two days, ratios around the thresholds *)

PerformanceStamps == 0 .. SlotsPerDay

PerformanceReadings ==
    {Payload(Some(p), Some(g), None, None) : p \in {0, 45, 60, 450}, g \in {100, 200}}

IngestPerformance == Ingest({"INV001"}, PerformanceStamps, PerformanceReadings, MaxRows)

PerformanceRatio ==
    Serve(Direct, "calculate_performance_ratio",
          PerformanceArgs({"INV001"}, {0, 1}, {None, Some(0), Some(1), Some(2)}),
          {NoFaults})

NextPerformance == IngestPerformance \/ Tick \/ PerformanceRatio

SpecPerformance == Init /\ [][NextPerformance]_vars

---------------------------------------------------------------------------
(* Storage failures: one device, every tool under every short plan *)

FaultPlans == PlansOf({"ok", "OperationalError", "ProgrammingError"}, 2)
FleetPlans == {NoFaults, <<"OperationalError">>, <<"ok", "ok", "ok", "OperationalError">>}
RetryPlans == PlansOf({"ok", "InterfaceError", "ProgrammingError"}, stop_after_attempt + 1)

\* the first slot of every day
DailyStamps == {d * SlotsPerDay : d \in 0 .. DateOf(MaxNow)}

IngestEnergy ==
    Ingest({"INV001"}, DailyStamps, {Payload(Some(1000), Some(100), Some(5), None)},
           MaxRows)

FaultyAnalyzeInverterHealth ==
    Serve(Direct, "analyze_inverter_health", HealthArgs({"INV001"}, {1}), FaultPlans)

FaultyGetPowerCurve ==
    Serve(Direct, "get_power_curve", DateArgs({"INV001"}, {0}), FaultPlans)

FaultyCompareLoggers ==
    Serve(Direct, "compare_loggers",
          CompareArgs({SubSeq(IdPool, 1, 2)}, {"power"}, {Some(0)}), FaultPlans)

FaultyCalculateFinancialSavings ==
    Serve(Direct, "calculate_financial_savings",
          FinancialArgs({"INV001"}, {0}, {None, Some(0)}, {20}), FaultPlans)

FaultyCalculatePerformanceRatio ==
    Serve(Direct, "calculate_performance_ratio",
          PerformanceArgs({"INV001"}, {0}, {None, Some(2)}), FaultPlans)

FaultyForecastProduction ==
    Serve(Direct, "forecast_production", ForecastArgs({"INV001"}, {1}), FaultPlans)

FaultyDiagnoseErrorCodes ==
    Serve(Direct, "diagnose_error_codes", HealthArgs({"INV001"}, {1}), FaultPlans)

FaultyGetFleetOverview ==
    Serve(Direct, "get_fleet_overview", NoArgs, FleetPlans)

RetriedQuery == ExecuteQuery(RetryPlans)

NextFaults ==
    \/ IngestEnergy
    \/ Tick
    \/ clear_anchor_cache
    \/ FaultyAnalyzeInverterHealth
    \/ FaultyGetPowerCurve
    \/ FaultyCompareLoggers
    \/ FaultyCalculateFinancialSavings
    \/ FaultyCalculatePerformanceRatio
    \/ FaultyForecastProduction
    \/ FaultyDiagnoseErrorCodes
    \/ FaultyGetFleetOverview
    \/ RetriedQuery

SpecFaults == Init /\ [][NextFaults]_vars

---------------------------------------------------------------------------
(* The transports: calls with parameters inside and outside their ranges *)

TransportRows == 1

Vias == {"mcp", "http"}

IngestOne ==
    Ingest({"INV001"}, Timestamps, {Payload(Some(1000), Some(100), Some(5), Some("E001"))},
           TransportRows)

SendAnalyzeInverterHealth ==
    Serve(Vias, "analyze_inverter_health", HealthArgs({"INV001"}, {0, 1, 366}), {NoFaults})

SendGetPowerCurve ==
    Serve(Vias, "get_power_curve", DateArgs({"INV001"}, {0, BadDate}), {NoFaults})

SendCompareLoggers ==
    Serve(Vias, "compare_loggers",
          CompareArgs({SubSeq(IdPool, 1, 2)}, {"power", "voltage"},
                      {Some(0), Some(BadDate)}),
          {NoFaults})

SendCalculateFinancialSavings ==
    Serve(Vias, "calculate_financial_savings",
          FinancialArgs({"INV001"}, {0, BadDate}, {Some(0)}, {0, 20, 101}), {NoFaults})

SendCalculatePerformanceRatio ==
    Serve(Vias, "calculate_performance_ratio",
          PerformanceArgs({"INV001"}, {0, BadDate}, {Some(2)}), {NoFaults})

SendForecastProduction ==
    Serve(Vias, "forecast_production", ForecastArgs({"INV001"}, {0, 1, 8}), {NoFaults})

SendDiagnoseErrorCodes ==
    Serve(Vias, "diagnose_error_codes", HealthArgs({"INV001"}, {0, 1, 31}), {NoFaults})

\* a POST whose body carries a key the function does not take
PostUnexpected ==
    Serve({"http"}, "analyze_inverter_health",
          {[logger_id |-> "INV001", days |-> 1, unexpected |-> TRUE]}, {NoFaults})

NextTransport ==
    \/ IngestOne
    \/ Tick
    \/ SendAnalyzeInverterHealth
    \/ SendGetPowerCurve
    \/ SendCompareLoggers
    \/ SendCalculateFinancialSavings
    \/ SendCalculatePerformanceRatio
    \/ SendForecastProduction
    \/ SendDiagnoseErrorCodes
    \/ PostUnexpected

SpecTransport == Init /\ [][NextTransport]_vars

---------------------------------------------------------------------------
(* What the served call asked for, read off the table itself *)

Report == outcome.report
Reported == outcome.kind = "report"

RecoveringTools ==
    {"analyze_inverter_health", "get_power_curve", "compare_loggers",
     "calculate_performance_ratio"}

PerDeviceTools == Tools \ {"get_fleet_overview"}

\* the primary statement of each tool
PrimaryOf(tool) ==
    CASE tool = "analyze_inverter_health" -> "health_analysis"
      [] tool = "get_power_curve" -> "power_curve"
      [] tool = "compare_loggers" -> "comparison"
      [] tool = "calculate_performance_ratio" -> "performance"
      [] tool = "calculate_financial_savings" -> "financial"
      [] tool = "forecast_production" -> "forecast"
      [] tool = "diagnose_error_codes" -> "logger_type"
      [] OTHER -> "fleet_power"

Issued(statement) == \E k \in 1 .. Len(outcome.queries) : outcome.queries[k] = statement

\* the measurements of the device, or devices, the call names
DeviceRows ==
    IF call.tool = "compare_loggers"
    THEN {r \in store : \E i \in 1 .. Len(call.args.logger_ids) :
                            r.loggerId = call.args.logger_ids[i]}
    ELSE {r \in store : r.loggerId = call.args.logger_id}

\* those of them the primary statement of the call selects
SelectedRows ==
    CASE call.tool = "analyze_inverter_health" ->
             {r \in DeviceRows : now - r.ts <= call.args.days * SlotsPerDay}
      [] call.tool = "get_power_curve" ->
             {r \in DeviceRows : r.ts \div SlotsPerDay = call.args.date}
      [] call.tool = "compare_loggers" ->
             {r \in DeviceRows :
                 call.args.date # <<>> => r.ts \div SlotsPerDay = call.args.date[1]}
      [] call.tool = "calculate_performance_ratio" ->
             {r \in DeviceRows : /\ r.ts \div SlotsPerDay = call.args.date
                                 /\ r.power # <<>>
                                 /\ r.irradiance # <<>>
                                 /\ r.irradiance[1] > 0}
      [] call.tool = "calculate_financial_savings" ->
             {r \in DeviceRows : /\ r.ts \div SlotsPerDay >= call.args.start_date
                                 /\ r.ts \div SlotsPerDay <= Report.period.end
                                 /\ r.energy # <<>>}
      [] call.tool = "forecast_production" ->
             {r \in DeviceRows : /\ now - r.ts <= 14 * SlotsPerDay
                                 /\ r.energy # <<>>}
      [] OTHER -> DeviceRows

PrimaryEmpty == Issued(PrimaryOf(call.tool)) /\ SelectedRows = {}

DeviceDates == {r.ts \div SlotsPerDay : r \in DeviceRows}

---------------------------------------------------------------------------
(* C1: in analyze_inverter_health, get_power_curve, compare_loggers and    *)
(* calculate_performance_ratio, a primary statement that selects no row    *)
(* gives no_data with availableRange {null, null} when the device has no   *)
(* measurement at all, and no_data_in_window with the device's true        *)
(* earliest and latest dates (non-null, start <= end) when it has some;    *)
(* no report pairs no_data with a bound or no_data_in_window with a null.  *)

---------------------------------------------------------------------------
(* C2: analyze_inverter_health over a non-empty window reports a row as an *)
(* anomaly iff (power = 0 or power is null) and irradiance > threshold     *)
(* (strict); anomalyCount counts all such rows even when the points are    *)
(* cut to the cap, and the points are the first cap anomalies in ascending *)
(* timestamp order.                                                        *)

Outages ==
    {r \in SelectedRows : /\ r.power \in {<<>>, <<0>>}
                          /\ r.irradiance # <<>>
                          /\ r.irradiance[1] > anomaly_irradiance_threshold}

C2_AnomalyRule ==
    (call.tool = "analyze_inverter_health" /\ Reported /\ SelectedRows # {}) =>
        LET points == Report.points
            shown == {points[i].timestamp : i \in 1 .. Len(points)}
        IN  /\ Report.anomalyCount = <<Cardinality(Outages)>>
            /\ Report.totalRecords = <<Cardinality(SelectedRows)>>
            /\ Len(points) = IF Cardinality(Outages) < anomaly_result_limit
                             THEN Cardinality(Outages) ELSE anomaly_result_limit
            /\ \A i \in 1 .. Len(points) :
                  \E r \in Outages : /\ points[i].timestamp = r.ts
                                     /\ points[i].activePowerWatts = r.power
                                     /\ points[i].irradiance = r.irradiance
            /\ \A i, j \in 1 .. Len(points) :
                  i < j => points[i].timestamp < points[j].timestamp
            /\ \A r \in Outages : \A t \in shown : r.ts \notin shown => t < r.ts

\* more anomalies in the window than the cap
C2_Truncated ==
    /\ call.tool = "analyze_inverter_health"
    /\ Reported
    /\ Cardinality(Outages) > anomaly_result_limit
    /\ Len(Report.points) = anomaly_result_limit
    /\ Report.anomalyCount[1] > Len(Report.points)

---------------------------------------------------------------------------
(* C3: every report of a per-device tool carries a status that is one of   *)
(* ok, no_data, no_data_in_window: ok when the computation ran on data,    *)
(* otherwise no_data or no_data_in_window together with an availableRange. *)

C3_StatusOnEveryReport ==
    (call.tool \in PerDeviceTools /\ Reported /\ Report.type # "error") =>
        /\ "status" \in DOMAIN Report
        /\ Report.status \in {<<"ok">>, <<"no_data">>, <<"no_data_in_window">>}
        /\ Report.status = <<"ok">> <=> ~PrimaryEmpty
        /\ Report.status # <<"ok">> =>
              /\ "availableRange" \in DOMAIN Report
              /\ Report.availableRange # <<>>

---------------------------------------------------------------------------
(* C4: in every report function that queries by device key, the range      *)
(* query is issued exactly when the primary query returned no row, after   *)
(* it and before the report is returned, and not when it returned a row.   *)

RangeIsLast ==
    /\ Len(outcome.queries) >= 2
    /\ outcome.queries[Len(outcome.queries)] = "range"
    /\ outcome.queries[Len(outcome.queries) - 1] = PrimaryOf(call.tool)
    /\ \A k \in 1 .. Len(outcome.queries) - 1 : outcome.queries[k] # "range"

---------------------------------------------------------------------------
(* C8: every relative window (the last N days of analyze_inverter_health   *)
(* and diagnose_error_codes, the fleet overview's active window) is        *)
(* measured back from the anchor date, the latest timestamp of the data,   *)
(* and not from the wall clock.                                            *)

AnchorOfData == CHOOSE t \in {r.ts : r \in store} : \A r \in store : r.ts <= t

C8_WindowsFromAnchor ==
    (Reported /\ store # {}) =>
        /\ call.tool = "analyze_inverter_health" =>
              LET inWindow == {r \in DeviceRows :
                                  AnchorOfData - r.ts <= call.args.days * SlotsPerDay}
              IN  inWindow # {} => Report.totalRecords = <<Cardinality(inWindow)>>
        /\ call.tool = "diagnose_error_codes" /\ DeviceRows # {} =>
              LET inWindow == {r \in DeviceRows :
                                  /\ AnchorOfData - r.ts <= call.args.days * SlotsPerDay
                                  /\ r.errorCode # <<>>}
              IN  Report.issueCount = <<Cardinality({r.errorCode : r \in inWindow})>>
        /\ call.tool = "get_fleet_overview" =>
              Report.activeLoggers =
                  Cardinality({r.loggerId : r \in {x \in store : x.ts >= AnchorOfData}})

---------------------------------------------------------------------------
(* C9: compare_loggers with fewer than 2 or more than 5 ids returns the    *)
(* error report {type: error, message: 'Provide 2-5 logger IDs for         *)
(* comparison'} without issuing a query; with 2 to 5 ids it never does.    *)

C9_IdCountRule ==
    (call.tool = "compare_loggers" /\ Reported) =>
        IF Len(call.args.logger_ids) \in 2 .. 5
        THEN Report.type # "error" /\ outcome.queries # <<>>
        ELSE /\ Report = [type |-> "error",
                          message |-> <<"Provide 2-5 logger IDs for comparison">>]
             /\ outcome.queries = <<>>

\* six ids, two of them known devices with data
C9_TooManyIds ==
    /\ call.tool = "compare_loggers"
    /\ Len(call.args.logger_ids) > 5
    /\ DeviceRows # {}
    /\ Reported
    /\ Report.type = "error"

---------------------------------------------------------------------------
(* C5: a storage failure of any statement run for a tool call, the         *)
(* anchor-date statement included, reaches the caller as a raised error    *)
(* and never as a report; an empty result never raises and yields a        *)
(* report with a message.                                                  *)

FailedAt(k) == PlanAt(call.plan, k) # "ok"

C5_FailuresPropagate ==
    call.tool \in Tools =>
        /\ (\E k \in 1 .. Len(outcome.queries) : FailedAt(k)) => outcome.kind = "raised"
        /\ (\A k \in 1 .. Len(outcome.queries) : ~FailedAt(k)) =>
              /\ Reported
              /\ (call.tool \in RecoveringTools \cup {"calculate_financial_savings",
                                                      "forecast_production"}
                    /\ PrimaryEmpty) => Report.message # <<>>

---------------------------------------------------------------------------
(* C6: a transient failure (OperationalError, InterfaceError) of a         *)
(* statement a report function issues is retried, the statement being run  *)
(* at most 3 times; a success stops the retrying, the error propagates     *)
(* once every attempt failed, and another kind of error is not retried.    *)

\* the number of consecutive runs of one statement that end at position k
RECURSIVE RunLength(_)
RunLength(k) ==
    IF k > 1 /\ outcome.queries[k - 1] = outcome.queries[k]
    THEN 1 + RunLength(k - 1) ELSE 1

C6_TransientRetried ==
    call.tool \in Tools =>
        \A k \in 1 .. Len(outcome.queries) :
            /\ RunLength(k) <= 3
            /\ (PlanAt(call.plan, k) \in Transient /\ RunLength(k) < 3) =>
                  /\ k < Len(outcome.queries)
                  /\ outcome.queries[k + 1] = outcome.queries[k]
            /\ (PlanAt(call.plan, k) \in Transient /\ RunLength(k) = 3) =>
                  /\ k = Len(outcome.queries)
                  /\ outcome.kind = "raised"
            /\ (FailedAt(k) /\ PlanAt(call.plan, k) \notin Transient) =>
                  /\ k = Len(outcome.queries)
                  /\ outcome.kind = "raised"
            /\ (~FailedAt(k) /\ k < Len(outcome.queries)) =>
                  outcome.queries[k + 1] # outcome.queries[k]

---------------------------------------------------------------------------
(* C7: a call whose parameter is outside its documented shape or range     *)
(* (days outside [1,365] or [1,30], days_ahead outside [1,7], a rate       *)
(* outside [0.01,1.00], a malformed date, a metric outside {power, energy, *)
(* irradiance}) is rejected as a client-input error on both transports,    *)
(* and no statement is run for it.                                         *)

OutsideDocumentedRange ==
    \/ call.tool = "analyze_inverter_health" /\ ~(1 <= call.args.days /\ call.args.days <= 365)
    \/ call.tool = "diagnose_error_codes" /\ ~(1 <= call.args.days /\ call.args.days <= 30)
    \/ call.tool = "forecast_production"
          /\ ~(1 <= call.args.days_ahead /\ call.args.days_ahead <= 7)
    \/ call.tool = "calculate_financial_savings"
          /\ \/ ~(1 <= call.args.electricity_rate /\ call.args.electricity_rate <= 100)
             \/ call.args.start_date < 0
             \/ call.args.end_date # <<>> /\ call.args.end_date[1] < 0
    \/ call.tool \in {"get_power_curve", "calculate_performance_ratio"}
          /\ call.args.date < 0
    \/ call.tool = "compare_loggers"
          /\ \/ call.args.metric \notin {"power", "energy", "irradiance"}
             \/ call.args.date # <<>> /\ call.args.date[1] < 0

C7_InvalidRejected ==
    (call.tool \in Tools /\ call.via \in {"mcp", "http"} /\ OutsideDocumentedRange) =>
        /\ outcome.kind = "rejected"
        /\ outcome.queries = <<>>

---------------------------------------------------------------------------
(* C10: calculate_performance_ratio clamps each row's ratio                *)
(* power/theoretical to [0, 1.5] before averaging, so PR% = mean x 100     *)
(* lies in [0, 150]; status is normal iff PR% >= 80, low iff               *)
(* 60 <= PR% < 80, critical iff PR% < 60.                                  *)

\* the reported PR%, in tenths of a percent; on the readings of the model
\* its rounding crosses no threshold
ReportedPr == Report.performanceRatio[1]

C10_ClampAndClassify ==
    (call.tool = "calculate_performance_ratio" /\ Reported
        /\ Report.performanceRatio # <<>>) =>
        /\ ~ReportedPr.nan
        /\ 0 <= ReportedPr.v
        /\ ReportedPr.v <= 1500
        /\ Report.status = <<"normal">> <=> (~ReportedPr.nan /\ ReportedPr.v >= 800)
        /\ Report.status = <<"low">> <=>
              (~ReportedPr.nan /\ 600 <= ReportedPr.v /\ ReportedPr.v < 800)
        /\ Report.status = <<"critical">> <=> (~ReportedPr.nan /\ ReportedPr.v < 600)

---------------------------------------------------------------------------
(* C11: calculate_performance_ratio computes the ratio only over the rows  *)
(* of the requested date that have power > 0 and irradiance > 0; a row     *)
(* with zero or null power, or with null or non-positive irradiance,       *)
(* enters neither dataPoints nor the mean ratio.                           *)

\* the rows of the requested date with power > 0 and irradiance > 0
PositiveRows ==
    OrderByTs({r \in DeviceRows : /\ DateOf(r.ts) = call.args.date
                                  /\ r.power # None /\ Val(r.power) > 0
                                  /\ r.irradiance # None /\ Val(r.irradiance) > 0})

MeanRatioOver(rows) ==
    MeanOf([i \in 1 .. Len(rows) |-> RatioOf(rows[i], Val(Report.inferredCapacityKw))])

C11_PositiveRowsOnly ==
    (call.tool = "calculate_performance_ratio" /\ Reported
        /\ Report.dataPoints # None) =>
        /\ Report.dataPoints = Some(Len(PositiveRows))
        /\ Report.performanceRatio = Some(PrRounded(MeanRatioOver(PositiveRows)))

---------------------------------------------------------------------------
(* Capacity inference: one device, two days, peaks on both sides of a      *)
(* half-kilowatt step, and readings without power                          *)

CapacityReadings ==
    {Payload(p, Some(100), None, None) : p \in {None, Some(500), Some(501), Some(4500)}}

IngestCapacity == Ingest({"INV001"}, PerformanceStamps, CapacityReadings, MaxRows)

InferredRatio ==
    Serve(Direct, "calculate_performance_ratio",
          PerformanceArgs({"INV001"}, {0, 1}, {None, Some(1), Some(9)}),
          {NoFaults})

NextCapacity == IngestCapacity \/ Tick \/ InferredRatio

SpecCapacity == Init /\ [][NextCapacity]_vars

---------------------------------------------------------------------------
(* C12: without a capacity override calculate_performance_ratio infers     *)
(* the capacity as ceil(peakWatts/500) x 0.5 kW from the device's all-time *)
(* peak power (4500 W gives 4.5 kW), so capacity x 1000 >= peak and        *)
(* capacity x 1000 < peak + 500; a device without a non-null power reading *)
(* gets the cannot-infer-capacity message and no per-date query; with an   *)
(* override no peak query is issued and the override is reported unchanged *)
(* as inferredCapacityKw.                                                  *)

\* the non-null power readings of the device, of every date
PowerReadings == {Val(r.power) : r \in {d \in DeviceRows : d.power # None}}

\* capacities are in half kilowatts: capacity x 1000 W is 500 per unit
C12_CapacityInference ==
    (call.tool = "calculate_performance_ratio" /\ Reported) =>
        IF call.args.capacity_kw # None
        THEN /\ ~Issued("peak_power")
             /\ Report.inferredCapacityKw = call.args.capacity_kw
        ELSE IF PowerReadings = {}
        THEN /\ outcome.queries = <<"peak_power">>
             /\ Report.message =
                    Some("Cannot infer system capacity - no power data found")
             /\ Report.inferredCapacityKw = None
             /\ Report.performanceRatio = None
        ELSE /\ outcome.queries[1] = "peak_power"
             /\ Report.inferredCapacityKw # None
             /\ Val(Report.inferredCapacityKw) * 500 >= Max(PowerReadings)
             /\ Val(Report.inferredCapacityKw) * 500 < Max(PowerReadings) + 500
             /\ Max(PowerReadings) = 4500 => Report.inferredCapacityKw = Some(9)

\* a peak of 501 W, just above a step, on another day than the one asked for
C12_InferredAboveStep ==
    /\ call.tool = "calculate_performance_ratio" /\ Reported
    /\ call.args.capacity_kw = None
    /\ PowerReadings # {} /\ Max(PowerReadings) = 501
    /\ \A r \in DeviceRows : r.power = Some(501) => DateOf(r.ts) # call.args.date
    /\ Report.inferredCapacityKw = Some(2)
    /\ Report.performanceRatio # None

---------------------------------------------------------------------------
(* Power-curve statistics as a function of the frame: every frame of at    *)
(* most MaxSeries rows, sampled once a slot, with powers on both sides of  *)
(* the two thresholds, without a power and below zero                      *)

MaxSeries == 4

TrendSamples == {None, Some(0 - 10), Some(0), Some(8), Some(9), Some(10), Some(11),
                 Some(12)}

Frames ==
    UNION {[1 .. n -> {[ts |-> 0, power |-> p] : p \in TrendSamples}] : n \in 0 .. MaxSeries}

\* the rows of a frame, stamped in their order
Stamped(frame) == [i \in 1 .. Len(frame) |-> [ts |-> i, power |-> frame[i].power]]

InitStats ==
    /\ store = {}
    /\ now = 0
    /\ anchor_cache = None
    /\ call \in {[tool |-> "calculate_power_curve_stats", args |-> [df |-> Stamped(f)],
                  via |-> "direct", plan |-> NoFaults] : f \in Frames}
    /\ outcome = NoOutcome

CalculatePowerCurveStats ==
    /\ call.tool = "calculate_power_curve_stats"
    /\ outcome = NoOutcome
    /\ outcome' = Returned(<<>>, calculate_power_curve_stats(call.args.df))
    /\ UNCHANGED <<store, now, anchor_cache, call>>

NextStats == CalculatePowerCurveStats

SpecStats == InitStats /\ [][NextStats]_vars

---------------------------------------------------------------------------
(* C13: over the non-null power samples of a power curve, split at index   *)
(* floor(n/2), the trend is rising iff mean(second half) > 1.1 x           *)
(* mean(first half), falling iff mean(second half) < 0.9 x mean(first      *)
(* half), and stable otherwise; fewer than 2 samples give stable; every    *)
(* non-empty result reports exactly one of rising, falling, stable.        *)

\* the non-null power samples of the frame the statistics were taken of
Samples ==
    LET df == IF call.tool = "get_power_curve"
              THEN OrderByTs({r \in DeviceRows : DateOf(r.ts) = call.args.date})
              ELSE call.args.df
        rows == SelectSeq(df, LAMBDA r : r.power # None)
    IN  [i \in 1 .. Len(rows) |-> Val(rows[i].power)]

Stats == IF call.tool = "get_power_curve" THEN Val(Report.summaryStats) ELSE Report

\* the means of the two halves, as sums over counts
FirstHalf == [sum |-> SumSeq(SubSeq(Samples, 1, Len(Samples) \div 2)),
              n |-> Len(Samples) \div 2]
SecondHalf == [sum |-> SumSeq(SubSeq(Samples, Len(Samples) \div 2 + 1, Len(Samples))),
               n |-> Len(Samples) - Len(Samples) \div 2]

\* mean(second half) > tenths/10 x mean(first half), both halves non-empty
SecondAbove(tenths) == 10 * SecondHalf.sum * FirstHalf.n > tenths * FirstHalf.sum * SecondHalf.n
SecondBelow(tenths) == 10 * SecondHalf.sum * FirstHalf.n < tenths * FirstHalf.sum * SecondHalf.n

StatsTaken ==
    /\ call.tool \in {"calculate_power_curve_stats", "get_power_curve"}
    /\ Reported
    /\ call.tool = "get_power_curve" => Report.summaryStats # None
    /\ call.tool = "calculate_power_curve_stats" => call.args.df # <<>>

C13_TrendRule ==
    StatsTaken =>
        /\ Stats.trend \in {Some("rising"), Some("falling"), Some("stable")}
        /\ Len(Samples) < 2 => Stats.trend = Some("stable")
        /\ Len(Samples) >= 2 =>
              /\ Stats.trend = Some("rising") <=> SecondAbove(11)
              /\ Stats.trend = Some("falling") <=> SecondBelow(9)

\* C13 as the code has it: a trend is reported iff some row has a power;
\* one sample gives stable; from two samples on the trend is rising iff the
\* mean of the second half exceeds 1.1 x the mean of the first, falling iff
\* it is not rising and the mean of the second half is below 0.9 x the mean
\* of the first, and stable otherwise.
C13_TrendOfSamples ==
    StatsTaken =>
        /\ Stats.trend = None <=> Samples = <<>>
        /\ Samples # <<>> =>
              Stats.trend \in {Some("rising"), Some("falling"), Some("stable")}
        /\ Len(Samples) = 1 => Stats.trend = Some("stable")
        /\ Len(Samples) >= 2 =>
              /\ Stats.trend = Some("rising") <=> SecondAbove(11)
              /\ Stats.trend = Some("falling") <=> (~SecondAbove(11) /\ SecondBelow(9))

\* an odd number of samples around a row without power, the second half
\* above 1.1 times the first
C13_RisingOverOddSplit ==
    /\ call.tool = "calculate_power_curve_stats" /\ Reported
    /\ Len(call.args.df) = 4
    /\ Len(Samples) = 3
    /\ FirstHalf.n = 1 /\ FirstHalf.sum = 10
    /\ SecondHalf.sum = 23
    /\ Stats.trend = Some("rising")

---------------------------------------------------------------------------
(* Financial savings: one device, three days of which the first has two   *)
(* readings, energy counters in kWh and readings without energy           *)

FinancialStamps == {0, 1, SlotsPerDay, 2 * SlotsPerDay}

FinancialReadings ==
    {Payload(None, None, e, None) : e \in {None, Some(455), Some(523), Some(487)}}

IngestCounters == Ingest({"INV001"}, FinancialStamps, FinancialReadings, MaxRows)

FinancialSavings ==
    Serve(Direct, "calculate_financial_savings",
          FinancialArgs({"INV001"}, {0, 1}, {None, Some(1), Some(2)}, {20}),
          {NoFaults})

NextFinancial == IngestCounters \/ Tick \/ FinancialSavings

SpecFinancial == Init /\ [][NextFinancial]_vars

---------------------------------------------------------------------------
(* C14: calculate_financial_savings reports as totalEnergyKwh the sum,     *)
(* over the calendar days of [start_date, end_date] with a non-null energy *)
(* reading, of the largest energy reading of the day (not the sum of the   *)
(* readings); daysWithData is the number of those days; savingsUsd =       *)
(* totalEnergyKwh x rate (days of 45.5, 52.3 and 48.7 at 0.20 give 146.5   *)
(* and 29.3); with no such day the report has the message and no totals.   *)

DaysWithEnergy == {DateOf(r.ts) : r \in SelectedRows}

LargestOfDay(d) == Max({Val(r.energy) : r \in {x \in SelectedRows : DateOf(x.ts) = d}})

RECURSIVE SumOfLargest(_)
SumOfLargest(D) ==
    IF D = {} THEN 0
    ELSE LET d == CHOOSE d \in D : TRUE
         IN  LargestOfDay(d) + SumOfLargest(D \ {d})

\* the claim's example in the units of the model: energy ten times larger,
\* the rate in cents
C14_TotalsFromDailyMaxima ==
    (call.tool = "calculate_financial_savings" /\ Reported) =>
        IF DaysWithEnergy = {}
        THEN /\ Report.message = Some("No energy data found for the specified period")
             /\ Report.daysWithData = None
             /\ Report.totalEnergyKwh = None
             /\ Report.savingsUsd = None
             /\ Report.co2OffsetKg = None
             /\ Report.treesEquivalent = None
        ELSE /\ Report.message = None
             /\ Report.daysWithData = Some(Cardinality(DaysWithEnergy))
             /\ Report.totalEnergyKwh = Some(SumOfLargest(DaysWithEnergy))
             /\ Report.savingsUsd =
                    Some(Val(Report.totalEnergyKwh) * call.args.electricity_rate)
             /\ {LargestOfDay(d) : d \in DaysWithEnergy} = {455, 523, 487} =>
                    /\ Report.totalEnergyKwh = Some(1465)
                    /\ Report.savingsUsd = Some(29300)

\* two readings on one day of the period: only the larger one counts
C14_TwoReadingsOneDay ==
    /\ call.tool = "calculate_financial_savings" /\ Reported
    /\ Cardinality(SelectedRows) = 3
    /\ Report.daysWithData = Some(2)
    /\ Report.totalEnergyKwh = Some(523 + 487)

---------------------------------------------------------------------------
(* Forecasting: one device, one energy reading a day on three days, with   *)
(* daily totals that put the coefficient of variation below, on and above  *)
(* 0.15 and 0.30, a deviation above the mean, and days without energy      *)

ForecastStamps == {0, SlotsPerDay, 2 * SlotsPerDay}

ForecastReadings ==
    {Payload(None, None, e, None) :
        e \in {None, Some(0), Some(10), Some(11), Some(14), Some(17), Some(20), Some(23),
               Some(26)}}

IngestHistory == Ingest({"INV001"}, ForecastStamps, ForecastReadings, MaxRows)

ForecastProduction ==
    Serve(Direct, "forecast_production", ForecastArgs({"INV001"}, {1, 2}), {NoFaults})

NextForecast == IngestHistory \/ Tick \/ ForecastProduction

SpecForecast == Init /\ [][NextForecast]_vars

---------------------------------------------------------------------------
(* C15: with at least 3 history days forecast_production returns exactly   *)
(* days_ahead rows, the i-th dated anchor date + i days, each with         *)
(* expectedKwh = mean of the per-day maxima, rangeMin = max(0, mean -      *)
(* stddev) and rangeMax = mean + stddev, so 0 <= rangeMin <= expectedKwh   *)
(* <= rangeMax; with fewer than 3 history days it returns the              *)
(* insufficient-data message and no rows.                                  *)

\* the per-day maxima of the history window, as a function of the day
History == DailyKwh(SelectedRows)
HistorySum == FnSum(History)
HistoryDays == Cardinality(DOMAIN History)

\* n^2 (n - 1) times the sample variance of the history
HistoryVariance ==
    LET dev == [d \in DOMAIN History |->
                   (HistoryDays * History[d] - HistorySum)
                       * (HistoryDays * History[d] - HistorySum)]
    IN  FnSum(dev)

\* |v - 100 x| <= 1/2 for the number x = (HistorySum + sign * s) / n, where
\* s = n * stddev: v is x in hundredths, rounded
RoundsMeanPlus(v, sign) ==
    LET n == HistoryDays
        lo == (2 * v - 1) * n - 200 * HistorySum      \* <= sign * 200 s
        hi == (2 * v + 1) * n - 200 * HistorySum      \* >= sign * 200 s
        t == 40000 * HistoryVariance                  \* (200 s)^2 (n - 1)
    IN  IF sign = 1
        THEN /\ lo <= 0 \/ lo * lo * (n - 1) <= t
             /\ hi >= 0 /\ hi * hi * (n - 1) >= t
        ELSE /\ lo <= 0 /\ lo * lo * (n - 1) >= t
             /\ hi >= 0 \/ hi * hi * (n - 1) <= t

\* mean - stddev < 0
DeviationAboveMean == HistoryVariance > HistorySum * HistorySum * (HistoryDays - 1)

C15_ForecastRows ==
    (call.tool = "forecast_production" /\ Reported) =>
        IF HistoryDays < 3
        THEN /\ Report.forecasts = <<>>
             /\ Report.message # None
             /\ Report.method = None /\ Report.basedOnDays = None
             /\ Report.historicalStats = None
        ELSE /\ Len(Report.forecasts) = call.args.days_ahead
             /\ Report.message = None
             /\ anchor_cache # None
             /\ \A i \in 1 .. Len(Report.forecasts) :
                   LET row == Report.forecasts[i]
                   IN  /\ row.date = DateOf(Val(anchor_cache)) + i
                       /\ 2 * HistoryDays * row.expectedKwh - 200 * HistorySum
                              \in (0 - HistoryDays) .. HistoryDays
                       /\ IF DeviationAboveMean THEN row.rangeMin = 0
                          ELSE RoundsMeanPlus(row.rangeMin, 0 - 1)
                       /\ RoundsMeanPlus(row.rangeMax, 1)
                       /\ 0 <= row.rangeMin
                       /\ row.rangeMin <= row.expectedKwh
                       /\ row.expectedKwh <= row.rangeMax

\* two rows from a history whose deviation exceeds its mean
C15_TwoDaysAheadClamped ==
    /\ call.tool = "forecast_production" /\ Reported
    /\ call.args.days_ahead = 2
    /\ Len(Report.forecasts) = 2
    /\ DeviationAboveMean
    /\ Report.forecasts[2].rangeMin = 0
    /\ Report.forecasts[2].expectedKwh > 0

---------------------------------------------------------------------------
(* C16: forecast_production takes the confidence from the coefficient of   *)
(* variation cv = stddev / mean of the daily history: high iff cv < 0.15,  *)
(* medium iff 0.15 <= cv < 0.30, low otherwise; a mean of 0 is not divided *)
(* by, cv is 1 and the confidence low; the rows of one report carry the    *)
(* same confidence.                                                        *)

\* stddev / mean < pct / 100 for a positive mean, 1 < pct / 100 otherwise
CvUnder(pct) ==
    IF HistorySum > 0
    THEN 10000 * HistoryVariance
            < pct * pct * HistorySum * HistorySum * (HistoryDays - 1)
    ELSE 100 < pct

C16_ConfidenceFromCv ==
    (call.tool = "forecast_production" /\ Reported /\ Report.forecasts # <<>>) =>
        \A i \in 1 .. Len(Report.forecasts) :
            LET confidence == Report.forecasts[i].confidence
            IN  /\ confidence = "high" <=> CvUnder(15)
                /\ confidence = "medium" <=> (~CvUnder(15) /\ CvUnder(30))
                /\ confidence = "low" <=> ~CvUnder(30)
                /\ HistorySum = 0 => confidence = "low"
                /\ confidence = Report.forecasts[1].confidence

\* a history of 17, 20 and 23 kWh: stddev 3, mean 20, cv exactly 0.15
C16_OnLowerThreshold ==
    /\ call.tool = "forecast_production" /\ Reported
    /\ Len(Report.forecasts) = 2
    /\ {History[d] : d \in DOMAIN History} = {17, 20, 23}
    /\ ~CvUnder(15) /\ CvUnder(16)
    /\ Report.forecasts[2].confidence = "medium"

---------------------------------------------------------------------------
(* Diagnostics: a device whose table has codes of the three severities, a  *)
(* device of a type without a table and a serial number without rows;      *)
(* rows in and out of a one-day window, with known codes, an unknown code  *)
(* and without a code                                                      *)

DiagnosticStamps == {0, 1, SlotsPerDay, MaxNow}

DiagnosticReadings ==
    {Payload(None, None, None, c) :
        c \in {None, Some("E100"), Some("E102"), Some("W100"), Some("W101"),
               Some("E999")}}

IngestErrors == Ingest({"INV003"}, DiagnosticStamps, DiagnosticReadings, MaxRows)

IngestForeign ==
    Ingest({"INV004"}, {0}, {Payload(None, None, None, Some("E100"))}, MaxRows)

DiagnoseErrorCodes ==
    Serve(Direct, "diagnose_error_codes",
          HealthArgs({"INV003", "INV004", "UNKNOWN"}, {1, 3}), {NoFaults})

NextDiagnostics == IngestErrors \/ IngestForeign \/ Tick \/ DiagnoseErrorCodes

SpecDiagnostics == Init /\ [][NextDiagnostics]_vars

\* the rows the error scan of the call reads, and their codes
ScannedRows ==
    {r \in DeviceRows : r.errorCode # None /\ r.ts >= now - call.args.days * SlotsPerDay}

ScannedCodes == {Val(r.errorCode) : r \in ScannedRows}

Occurrences(code) == Cardinality({r \in ScannedRows : r.errorCode = Some(code)})

\* the severity the device type's table gives a code, warning without one
TableSeverity(code) ==
    LET type == LoggerType(call.args.logger_id)
    IN  IF type \in DOMAIN ERROR_CODES /\ code \in DOMAIN ERROR_CODES[type]
        THEN ERROR_CODES[type][code].severity
        ELSE "warning"

SeverityRank(severity) ==
    CASE severity = "critical" -> 0
      [] severity = "warning" -> 1
      [] severity = "info" -> 2

Diagnosed ==
    call.tool = "diagnose_error_codes" /\ Reported /\ Report.overallHealth # None

---------------------------------------------------------------------------
(* C17: diagnose_error_codes orders its issues by severity rank (critical, *)
(* warning, info) and within a severity by descending occurrences;         *)
(* overallHealth is the worst severity among all found issues, good when   *)
(* there are none; issueCount is the number of distinct codes found before *)
(* truncation; the returned list is the first diagnostic_issue_limit       *)
(* entries of the sorted list, so no issue is dropped in favour of a less  *)
(* severe one.                                                             *)

\* the rank and count of a found code do not come after those of another
NotAfter(c, d) ==
    \/ SeverityRank(TableSeverity(c)) < SeverityRank(TableSeverity(d))
    \/ /\ SeverityRank(TableSeverity(c)) = SeverityRank(TableSeverity(d))
       /\ Occurrences(c) >= Occurrences(d)

C17_SortedAndTruncated ==
    Diagnosed =>
        LET issues == Report.issues
            returned == {issues[i].code : i \in 1 .. Len(issues)}
        IN  /\ \A i, j \in 1 .. Len(issues) :
                  i < j => /\ issues[i].code # issues[j].code
                           /\ NotAfter(issues[i].code, issues[j].code)
            /\ returned \subseteq ScannedCodes
            /\ \A i \in 1 .. Len(issues) :
                  /\ issues[i].severity = TableSeverity(issues[i].code)
                  /\ issues[i].occurrences = Occurrences(issues[i].code)
            /\ Report.issueCount = Some(Cardinality(ScannedCodes))
            /\ Len(issues) = Min({Cardinality(ScannedCodes), diagnostic_issue_limit})
            /\ \A c \in returned, d \in ScannedCodes \ returned : NotAfter(c, d)
            /\ Report.overallHealth =
                   Some(IF \E c \in ScannedCodes : TableSeverity(c) = "critical"
                        THEN "critical"
                        ELSE IF \E c \in ScannedCodes : TableSeverity(c) = "warning"
                        THEN "warning"
                        ELSE IF ScannedCodes # {} THEN "info"
                        ELSE "good")

\* three codes of three severities, the newest row an info code: the info
\* issue is the one cut off
C17_InfoCutOff ==
    /\ Diagnosed
    /\ Report.issueCount = Some(diagnostic_issue_limit + 1)
    /\ Len(Report.issues) = diagnostic_issue_limit
    /\ Report.issues[1].severity = "critical"
    /\ \A i \in 1 .. Len(Report.issues) : Report.issues[i].severity # "info"
    /\ \E r \in ScannedRows :
          /\ TableSeverity(Val(r.errorCode)) = "info"
          /\ \A x \in ScannedRows : x.ts <= r.ts

---------------------------------------------------------------------------
(* C18: each issue of a diagnostics report has as occurrences the number   *)
(* of scanned rows of the window that carry its code, as firstSeen the     *)
(* earliest and as lastSeen the latest timestamp at which the code occurs  *)
(* in the window, hence firstSeen <= lastSeen.                             *)

SeenAt(code) == {r.ts : r \in {x \in ScannedRows : x.errorCode = Some(code)}}

C18_FirstAndLastSeen ==
    Diagnosed =>
        \A i \in 1 .. Len(Report.issues) :
            LET issue == Report.issues[i]
            IN  /\ issue.occurrences = Cardinality(SeenAt(issue.code))
                /\ issue.firstSeen = Min(SeenAt(issue.code))
                /\ issue.lastSeen = Max(SeenAt(issue.code))
                /\ issue.firstSeen <= issue.lastSeen

---------------------------------------------------------------------------
(* C19: an error code that the device type's table lacks, and any code of  *)
(* a device type without a table, gives an issue with the description      *)
(* 'Unknown error code: <code>', severity warning and the generic fix; the *)
(* report is still produced, and every known code of the same scan has the *)
(* description, severity and fix of its table entry.                       *)

InTable(code) ==
    /\ LoggerType(call.args.logger_id) \in DOMAIN ERROR_CODES
    /\ code \in DOMAIN ERROR_CODES[LoggerType(call.args.logger_id)]

C19_UnknownCodeIsGeneric ==
    (call.tool = "diagnose_error_codes" /\ Reported /\ DeviceRows # {}) =>
        /\ Report.message = None
        /\ Report.overallHealth # None
        /\ Report.issueCount = Some(Cardinality(ScannedCodes))
        /\ \A i \in 1 .. Len(Report.issues) :
              LET issue == Report.issues[i]
              IN  IF InTable(issue.code)
                  THEN LET entry == ERROR_CODES[LoggerType(call.args.logger_id)][issue.code]
                       IN  /\ issue.description = <<entry.description>>
                           /\ issue.severity = entry.severity
                           /\ issue.suggestedFix = entry.fix
                  ELSE /\ issue.description = <<"Unknown error code: ", issue.code>>
                       /\ issue.severity = "warning"
                       /\ issue.suggestedFix = "Consult manufacturer documentation"

\* one scan with a code of the table and a code the table lacks
C19_KnownBesideUnknown ==
    /\ call.tool = "diagnose_error_codes" /\ Reported
    /\ Len(Report.issues) = 2
    /\ Report.issues[1].code = "E100"
    /\ Report.issues[1].description = <<"Inverter Offline">>
    /\ Report.issues[2].code = "E999"
    /\ Report.issues[2].description = <<"Unknown error code: ", "E999">>
    /\ Report.overallHealth = Some("critical")

---------------------------------------------------------------------------
(* C20: for a device id without measurements diagnose_error_codes returns  *)
(* the message 'Logger not found' with no overallHealth and no issues and  *)
(* issues no error-scan query; for a known device without error rows in    *)
(* the window it returns overallHealth good with issueCount 0.             *)

C20_NotFoundOrGood ==
    (call.tool = "diagnose_error_codes" /\ Reported) =>
        IF DeviceRows = {}
        THEN /\ Report.message = Some("Logger not found")
             /\ Report.overallHealth = None
             /\ Report.issueCount = None
             /\ Report.issues = <<>>
             /\ Report.loggerType = None
             /\ Report.summary = None
             /\ outcome.queries = <<"logger_type">>
        ELSE /\ Report.message = None
             /\ outcome.queries = <<"logger_type", "error_scan">>
             /\ ScannedRows = {} =>
                    /\ Report.overallHealth = Some("good")
                    /\ Report.issueCount = Some(0)
                    /\ Report.issues = <<>>

\* a device whose only error rows are older than the window
C20_GoodOutsideWindow ==
    /\ call.tool = "diagnose_error_codes" /\ Reported
    /\ \E r \in DeviceRows : r.errorCode # None
    /\ ScannedRows = {}
    /\ Report.overallHealth = Some("good")
    /\ Report.issueCount = Some(0)

---------------------------------------------------------------------------
(* The fleet: ten devices polled in a fixed order on three slots of two    *)
(* days; the first device carries the irradiance sensor                    *)

FleetPool ==
    <<"INV001", "INV002", "INV003", "INV004", "INV005",
      "INV006", "INV007", "INV008", "INV009", "INV010">>

FleetStamps == {0, 1, SlotsPerDay}

FleetReadings(i) ==
    IF i = 1
    THEN {Payload(Some(0), Some(0), None, None), Payload(Some(1000), Some(600), Some(5), None)}
    ELSE {Payload(Some(1000), None, Some(5), None)}

Poll ==
    /\ \E i \in 1 .. Len(FleetPool), ts \in FleetStamps :
          \E m \in FleetReadings(i) :
              /\ ts <= now
              /\ \A r \in store : ~(r.loggerId = FleetPool[i] /\ r.ts = ts)
              /\ i > 1 => \E r \in store : r.loggerId = FleetPool[i - 1] /\ r.ts = ts
              /\ store' = store \cup {Row(FleetPool[i], ts, m.power, m.irradiance,
                                          m.energy, m.errorCode)}
    /\ call' = NoCall
    /\ outcome' = NoOutcome
    /\ UNCHANGED <<now, anchor_cache>>

\* the clock, up to the slot after the last poll
FleetTick == now <= SlotsPerDay /\ Tick

GetFleetOverview == Serve(Direct, "get_fleet_overview", NoArgs, {NoFaults})

NextFleet == Poll \/ FleetTick \/ GetFleetOverview

SpecFleet == Init /\ [][NextFleet]_vars

\* the devices of the table, and those with a row in the current slot
FleetTotal == Cardinality({r.loggerId : r \in store})
FleetActive == Cardinality({r.loggerId : r \in {x \in store : x.ts >= now}})

FleetReported == Reported /\ call.tool = "get_fleet_overview"

(* C21: get_fleet_overview reports percentOnline = active / total x 100    *)
(* (to one decimal) and fleetHealth Healthy iff that percentage is above   *)
(* 90, Degraded iff it is above 50 and at most 90, Critical otherwise;     *)
(* with no device, or no active device, nothing is divided by zero,        *)
(* percentOnline is 0 and fleetHealth is Critical.                         *)
C21_PercentAndHealth ==
    FleetReported =>
        LET a == FleetActive
            t == FleetTotal
            p == Report.percentOnline      \* in tenths of a percent
        IN  /\ Report.activeLoggers = a
            /\ Report.totalLoggers = t
            /\ t > 0 => 2 * p * t - 2000 * a \in (0 - t) .. t
            /\ (t = 0 \/ a = 0) => (p = 0 /\ Report.fleetHealth = "Critical")
            /\ Report.fleetHealth = "Healthy" <=> (t > 0 /\ 100 * a > 90 * t)
            /\ Report.fleetHealth = "Degraded" <=>
                   (t > 0 /\ 100 * a > 50 * t /\ 100 * a <= 90 * t)
            /\ Report.fleetHealth \in {"Healthy", "Degraded", "Critical"}

\* nine of ten devices are active: exactly 90 percent, Degraded
C21_NineOfTen ==
    /\ FleetReported
    /\ FleetTotal > 0
    /\ 100 * FleetActive = 90 * FleetTotal
    /\ Report.percentOnline = 900
    /\ Report.fleetHealth = "Degraded"

\* the anchor date of the overview is not the date of the wall clock
FleetDateDiffers == DateOf(Report.timestamp) # DateOf(now)

---------------------------------------------------------------------------
(* Comparison: two devices on the two slots of one day, the first at 100 W *)
(* and the second at powers that put the spread below, on and above 10,    *)
(* 15, 20, 30 and 40 percent; rows without power; a device that is unknown *)

ComparisonStamps == {0, 1}

LeaderReadings == {Payload(Some(100), None, None, None)}

TrailerReadings ==
    {Payload(p, None, None, None) :
        p \in {None} \cup {Some(w) : w \in {0, 59, 60, 61, 69, 70, 80, 84, 85, 90, 91, 100}}}

IngestLeader == Ingest({"INV001"}, ComparisonStamps, LeaderReadings, 2 * MaxRows)
IngestTrailer == Ingest({"INV002"}, ComparisonStamps, TrailerReadings, 2 * MaxRows)

ComparisonTick == now < 1 /\ Tick

ComparisonLists == {<<"INV001", "INV002">>, <<"INV002", "INV001">>, <<"INV001", "X1">>}

CompareLoggers ==
    Serve(Direct, "compare_loggers",
          CompareArgs(ComparisonLists, {"power"}, {None, Some(0)}), {NoFaults})

NextComparison == IngestLeader \/ IngestTrailer \/ ComparisonTick \/ CompareLoggers

SpecComparison == Init /\ [][NextComparison]_vars

\* a comparison that carries a context
ComparisonReported ==
    /\ Reported
    /\ call.tool = "compare_loggers"
    /\ Report.type = "comparison"
    /\ ~IsNone(Report.context)

\* the values the comparison is over, and the devices that have one
ComparedRows ==
    {r \in store : /\ r.loggerId \in SeqToSet(call.args.logger_ids)
                   /\ (~IsNone(call.args.date) => DateOf(r.ts) = Val(call.args.date))
                   /\ ~IsNone(MetricValue(r, call.args.metric))}

ComparedDevices == {r.loggerId : r \in ComparedRows}

AverageOf(l) ==
    LET V == {r \in ComparedRows : r.loggerId = l}
    IN  Frac(FnSum([r \in V |-> Val(MetricValue(r, call.args.metric))]), Cardinality(V))

FracLess(a, b) == a.num * b.den < b.num * a.den

HighestAverages == {l \in ComparedDevices :
                       \A m \in ComparedDevices : ~FracLess(AverageOf(l), AverageOf(m))}
LowestAverages == {l \in ComparedDevices :
                      \A m \in ComparedDevices : ~FracLess(AverageOf(m), AverageOf(l))}

\* (best - worst) / best x 100, and 0 when no device has a value or the
\* best average is 0
TheSpread ==
    LET b == AverageOf(CHOOSE l \in HighestAverages : TRUE)
        w == AverageOf(CHOOSE l \in LowestAverages : TRUE)
    IN  IF ComparedDevices = {} THEN Frac(0, 1)
        ELSE IF b.num <= 0 THEN Frac(0, 1)
        ELSE Frac((b.num * w.den - w.num * b.den) * 100, b.num * w.den)

Envelope == Val(Report.context)

ConsistentFraming == Envelope.summary = <<"Your inverters are performing consistently">>
LeaderFraming ==
    \E b \in HighestAverages, w \in LowestAverages :
        Envelope.summary = <<"Comparing", b, "leads with the highest", w, "trails">>
SignificantFraming ==
    \E b \in HighestAverages, w \in LowestAverages :
        Envelope.summary = <<"There's a significant difference between your inverters",
                             b, "is your best performer, outproducing", w>>
NeutralFraming == Envelope.summary = <<"Comparing">>

TitlesOf(ctx) == {ctx.insights[i].title : i \in 1 .. Len(ctx.insights)}

\* every two values are within 10% of the larger of them
AllWithinTenPercent ==
    \A r1, r2 \in ComparedRows :
        LET v1 == Val(MetricValue(r1, call.args.metric))
            v2 == Val(MetricValue(r2, call.args.metric))
        IN  100 * (v1 - v2) <= 10 * Max({v1, v2})

\* what holds of every comparison context
SpreadRules ==
    /\ ComparedDevices # {} =>
           \E b \in HighestAverages : Envelope.insights[1].title = "Top performer: " \o b
    /\ ~IsNone(Envelope.alert) <=> Above(TheSpread, 40)
    /\ ~IsNone(Envelope.alert) =>
           \E w \in LowestAverages : Envelope.alert = Some(w \o " is underperforming by")
    /\ AllWithinTenPercent =>
           /\ IsNone(Envelope.alert)
           /\ \A l \in ComparedDevices : "Underperformer: " \o l \notin TitlesOf(Envelope)

(* C23 as written: in a comparison context the best and worst devices are *)
(* those of the highest and lowest average, spread% = (best - worst) /     *)
(* best x 100, the summary is the consistent framing iff spread < 10, the  *)
(* leader/trailer framing iff 10 <= spread < 30 and the significant-       *)
(* difference framing iff spread >= 30, the alert is set iff spread > 40,  *)
(* and values all within 10% of each other give neither an underperformer  *)
(* insight nor an alert.                                                   *)
C23_SpreadFraming ==
    ComparisonReported =>
        /\ SpreadRules
        /\ ConsistentFraming <=> Below(TheSpread, 10)
        /\ LeaderFraming <=> (~Below(TheSpread, 10) /\ Below(TheSpread, 30))
        /\ SignificantFraming <=> ~Below(TheSpread, 30)

(* C23, amended: the three framings are chosen by the spread when at least *)
(* two of the listed devices have a value; when only one has, the spread   *)
(* or none, the spread is 0 and the summary is the neutral one.            *)
C23_FramingOfTwoOrMore ==
    ComparisonReported =>
        /\ SpreadRules
        /\ Cardinality(ComparedDevices) >= 2 =>
               /\ ConsistentFraming <=> Below(TheSpread, 10)
               /\ LeaderFraming <=> (~Below(TheSpread, 10) /\ Below(TheSpread, 30))
               /\ SignificantFraming <=> ~Below(TheSpread, 30)
        /\ Cardinality(ComparedDevices) < 2 =>
               (NeutralFraming /\ TheSpread.num = 0)

\* averages of 100 and 60: a spread of exactly 40, significant, no alert
C23_SpreadOfForty ==
    /\ ComparisonReported
    /\ Cardinality(ComparedRows) > Cardinality(ComparedDevices)
    /\ ~Above(TheSpread, 40) /\ ~Below(TheSpread, 40)
    /\ SignificantFraming
    /\ IsNone(Envelope.alert)

---------------------------------------------------------------------------
(* The context envelopes of every report type.  One file of measurements   *)
(* is imported into the empty table: a device's outages and producing      *)
(* readings of up to three days, with or without an error code; a fleet of *)
(* up to three devices of which some report in the current slot; or two    *)
(* devices to compare.  Every tool is then called.                         *)

Outage(ts, code) == Row("INV003", ts, Some(0), Some(100), None, code)
Producing(ts) == Row("INV003", ts, Some(70), Some(100), Some(20), None)

ImportedCodes == {None, Some("E100"), Some("E102"), Some("W100")}

\* k outages and then g producing readings, or the other way round
ReadingFiles ==
    {{Outage(t, c) : t \in 0 .. k - 1} \cup {Producing(t) : t \in k .. k + g - 1} :
        k \in 0 .. now + 1, g \in 0 .. now + 1, c \in ImportedCodes}
    \cup
    {{Producing(t) : t \in 0 .. g - 1} \cup {Outage(t, c) : t \in g .. g + k - 1} :
        k \in 0 .. now + 1, g \in 0 .. now + 1, c \in ImportedCodes}

\* t devices of which the first a report in the current slot
FleetFiles ==
    {{Row(FleetPool[d], IF d <= a THEN now ELSE now - 1, Some(1000), Some(600), Some(5),
          None) : d \in 1 .. t} : a \in 0 .. 3, t \in 1 .. 3}

ComparisonFiles ==
    {{Row("INV001", 0, Some(100), None, None, None),
      Row("INV002", 0, Some(w), None, None, None)} : w \in {95, 75, 55}}

Import(files) ==
    /\ store = {}
    /\ \E file \in files :
          /\ file # {}
          /\ \A r \in file : r.ts \in 0 .. now
          /\ store' = file
    /\ call' = NoCall
    /\ outcome' = NoOutcome
    /\ UNCHANGED <<now, anchor_cache>>

ImportReadings == Import(ReadingFiles)
ImportFleet == Import(FleetFiles)
ImportComparison == Import(ComparisonFiles)

ContextDates == 0 .. DateOf(MaxNow)

ContextAnomalies ==
    Serve(Direct, "analyze_inverter_health", HealthArgs({"INV003"}, {3}), {NoFaults})
ContextPowerCurve ==
    Serve(Direct, "get_power_curve", DateArgs({"INV003"}, ContextDates), {NoFaults})
ContextComparison ==
    Serve(Direct, "compare_loggers",
          CompareArgs({<<"INV001", "INV002">>}, {"power"}, {None}), {NoFaults})
ContextFinancial ==
    Serve(Direct, "calculate_financial_savings",
          FinancialArgs({"INV003"}, {0}, {None}, {20}), {NoFaults})
ContextPerformance ==
    Serve(Direct, "calculate_performance_ratio",
          PerformanceArgs({"INV003"}, ContextDates, {None, Some(2), Some(3)}), {NoFaults})
ContextForecast ==
    Serve(Direct, "forecast_production", ForecastArgs({"INV003"}, {1}), {NoFaults})
ContextDiagnostics ==
    Serve(Direct, "diagnose_error_codes", HealthArgs({"INV003"}, {3}), {NoFaults})
ContextFleet == Serve(Direct, "get_fleet_overview", NoArgs, {NoFaults})

NextContext ==
    \/ ImportReadings
    \/ ImportFleet
    \/ ImportComparison
    \/ Tick
    \/ ContextAnomalies
    \/ ContextPowerCurve
    \/ ContextComparison
    \/ ContextFinancial
    \/ ContextPerformance
    \/ ContextForecast
    \/ ContextDiagnostics
    \/ ContextFleet

SpecContext == Init /\ [][NextContext]_vars

\* a report that carries a context envelope
HasContext ==
    /\ Reported
    /\ call.tool \in Tools
    /\ Report.type # "error"
    /\ ~IsNone(Report.context)

SeveritiesOf(ctx) == {ctx.insights[i].severity : i \in 1 .. Len(ctx.insights)}
PrioritiesOf(ctx) == {ctx.next_steps[i].priority : i \in 1 .. Len(ctx.next_steps)}

\* the critical condition of the type of the report
CriticalCondition ==
    CASE Report.type = "performance_report" -> Report.status = Some("critical")
      [] Report.type = "diagnostics_report" ->
             \E i \in 1 .. Len(Report.issues) : Report.issues[i].severity = "critical"
      [] Report.type = "fleet_overview" ->
             Report.fleetHealth = "Critical" \/ FleetDateDiffers
      [] Report.type = "comparison" -> Above(TheSpread, 40)
      [] Report.type = "anomaly_report" -> "critical" \in SeveritiesOf(Envelope)
      [] OTHER -> FALSE

(* C24: in every context envelope the alert is set only in the critical    *)
(* condition of the report type: a performance status critical, at least   *)
(* one critical diagnostics issue, a fleet that is Critical or whose data  *)
(* is of another day, a comparison spread above 40%, an anomaly insight of *)
(* severity critical; power-curve, financial and forecast envelopes carry  *)
(* no alert.                                                               *)
C24_AlertOnlyWhenCritical ==
    (HasContext /\ ~IsNone(Envelope.alert)) => CriticalCondition

\* urgent, then recommended, then suggested, then optional
PriorityRank(priority) ==
    CASE priority = "urgent" -> 0
      [] priority = "recommended" -> 1
      [] priority = "suggested" -> 2
      [] OTHER -> 3

ByPriority(steps) ==
    \A i, j \in 1 .. Len(steps) :
        i < j => PriorityRank(steps[i].priority) <= PriorityRank(steps[j].priority)

\* s is the head of t, cut at three
HeadOfThree(s, t) == s = SubSeq(t, 1, Min({3, Len(t)}))

\* the statistics of the compared devices, read off the table
ComparedStats == LoggerStats(ComparedRows, ComparedDevices, call.args.metric)
ComparedOrder == SelectSeq(call.args.logger_ids, LAMBDA l : l \in ComparedDevices)
ComparedBest == BestLogger(ComparedOrder, ComparedStats)
ComparedWorst == WorstLogger(ComparedOrder, ComparedStats)

\* the insights and the next steps generated for the report, before the cut
CandidateInsights ==
    CASE Report.type = "anomaly_report" -> AnomalyInsights(Val(Report.anomalyCount))
      [] Report.type = "timeseries" -> PowerCurveInsights(Val(Report.summaryStats))
      [] Report.type = "comparison" ->
             ComparisonInsights(SpreadPercent(ComparedBest, ComparedWorst, ComparedStats),
                                ComparedBest, ComparedWorst, ComparedStats)
      [] Report.type = "financial_report" -> FinancialInsights(Val(Report.totalEnergyKwh))
      [] Report.type = "performance_report" ->
             PerformanceInsights(Val(Report.status), Val(Report.peakPowerWatts),
                                 Val(Report.avgIrradiance))
      [] Report.type = "production_forecast" ->
             ForecastInsights(Report.forecasts[1].confidence)
      [] Report.type = "diagnostics_report" ->
             DiagnosticsInsights(Report.issues, Val(Report.overallHealth))
      [] Report.type = "fleet_overview" ->
             FleetInsights(Report.fleetHealth, Report.currentTotalPowerWatts,
                           Report.siteAvgIrradiance)

CandidateNextSteps ==
    CASE Report.type = "anomaly_report" -> AnomalyNextSteps(Val(Report.anomalyCount))
      [] Report.type = "timeseries" -> PowerCurveNextSteps(Val(Report.summaryStats))
      [] Report.type = "comparison" ->
             ComparisonNextSteps(SpreadPercent(ComparedBest, ComparedWorst, ComparedStats),
                                 ComparedBest, ComparedWorst)
      [] Report.type = "financial_report" -> FinancialNextSteps
      [] Report.type = "performance_report" -> PerformanceNextSteps(Val(Report.status))
      [] Report.type = "production_forecast" -> ForecastNextSteps
      [] Report.type = "diagnostics_report" -> DiagnosticsNextSteps(Report.issues)
      [] Report.type = "fleet_overview" -> FleetNextSteps(Report.fleetHealth)

(* C25: every context envelope has at most 3 insights and at most 3 next   *)
(* steps, each list is the head of the list generated for the report, in   *)
(* the order of generation, and the next steps, generated and returned,    *)
(* are in the order urgent, recommended, suggested, optional, so that no   *)
(* step is cut that has a higher priority than one that is kept.           *)
C25_HeadsByPriority ==
    HasContext =>
        /\ Len(Envelope.insights) <= 3
        /\ Len(Envelope.next_steps) <= 3
        /\ HeadOfThree(Envelope.insights, CandidateInsights)
        /\ HeadOfThree(Envelope.next_steps, CandidateNextSteps)
        /\ ByPriority(CandidateNextSteps)
        /\ ByPriority(Envelope.next_steps)

\* a falling power curve: the recommended step is put before the two
\* suggested ones, and the three insights are all returned
C25_FallingCurve ==
    /\ HasContext
    /\ Report.type = "timeseries"
    /\ Val(Report.summaryStats).trend = Some("falling")
    /\ Len(Envelope.insights) = 3
    /\ Len(Envelope.next_steps) = 3
    /\ Envelope.next_steps[1].priority = "recommended"
    /\ Envelope.next_steps[3].priority = "suggested"

---------------------------------------------------------------------------
(* The anchor-date cache: measurements arrive, report functions ask for    *)
(* the anchor date, an operator clears the cache after seeding.            *)

AnchorReadings == {Payload(Some(1000), Some(100), Some(5), None)}
AnchorPlans == PlansOf({"ok", "OperationalError"}, 1)

IngestAnchor == Ingest({"INV001"}, Timestamps, AnchorReadings, MaxRows)

\* one call of get_anchor_date, served to its end
GetAnchorDate ==
    \E plan \in AnchorPlans :
        LET run == get_anchor_date(plan, 1)
        IN  /\ call' = [tool |-> "get_anchor_date", args |-> <<>>, via |-> "direct",
                        plan |-> plan]
            /\ outcome' = Returned(run.queries, [type |-> "anchor", value |-> run.value])
            /\ anchor_cache' = run.cache
            /\ UNCHANGED <<store, now>>

\* clear_anchor_cache on a cache that holds a value, the call recorded
ClearAnchorCache ==
    /\ ~IsNone(anchor_cache)
    /\ anchor_cache' = None
    /\ call' = [tool |-> "clear_anchor_cache", args |-> <<>>, via |-> "direct",
                plan |-> NoFaults]
    /\ outcome' = NoOutcome
    /\ UNCHANGED <<store, now>>

NextAnchor == IngestAnchor \/ Tick \/ GetAnchorDate \/ ClearAnchorCache

SpecAnchor == Init /\ [][NextAnchor]_vars

LatestTimestamp == Max({r.ts : r \in store})

\* the steps of get_anchor_date that the whole protocol shares: the store
\* is queried exactly when the cache is empty, a cached value is returned
\* as it is and kept, and the cache is assigned nothing but the latest
\* timestamp of the store
AnchorProtocol ==
    /\ call'.tool = "get_anchor_date" =>
           /\ outcome'.queries # <<>> <=> IsNone(anchor_cache)
           /\ ~IsNone(anchor_cache) =>
                  /\ outcome'.report.value = Val(anchor_cache)
                  /\ anchor_cache' = anchor_cache
           /\ (IsNone(anchor_cache) /\ store # {} /\ PlanAt(call'.plan, 1) = "ok") =>
                  /\ outcome'.report.value = LatestTimestamp
                  /\ anchor_cache' = Some(LatestTimestamp)
           /\ (IsNone(anchor_cache) /\ (store = {} \/ PlanAt(call'.plan, 1) # "ok")) =>
                  /\ outcome'.report.value = now
                  /\ anchor_cache' = None
    /\ (anchor_cache' # anchor_cache /\ ~IsNone(anchor_cache')) =>
           /\ call'.tool = "get_anchor_date"
           /\ store # {}
           /\ anchor_cache' = Some(LatestTimestamp)
    /\ (anchor_cache' # anchor_cache /\ IsNone(anchor_cache')) =>
           call'.tool = "clear_anchor_cache"

\* the call that follows clear_anchor_cache
AfterClear == call.tool = "clear_anchor_cache" /\ call'.tool = "get_anchor_date"

---------------------------------------------------------------------------
(* Liveness of the anchor date.  Report functions keep being called and    *)
(* their queries keep succeeding in the end, so a get_anchor_date whose    *)
(* query succeeds is taken whenever it would change anything.  Nothing in  *)
(* the service calls clear_anchor_cache and no timer refreshes the cache:  *)
(* clearing stays an operator's step that may never be taken.              *)

AnchorDateRead == GetAnchorDate /\ call'.plan = NoFaults

SpecAnchorLive == Init /\ [][NextAnchor]_vars /\ WF_vars(AnchorDateRead)

AnchorReturned(t) ==
    /\ call.tool = "get_anchor_date"
    /\ outcome.report.value = t

(* C28: the anchor date is the latest timestamp of the store: whenever     *)
(* the latest timestamp of a non-empty store is t, for instance after      *)
(* later measurements were added, get_anchor_date eventually returns t,    *)
(* unless still later measurements have arrived by then.                   *)
C28_AnchorFollowsStore ==
    \A t \in Timestamps :
        (store # {} /\ LatestTimestamp = t)
            ~> ((store # {} /\ LatestTimestamp # t) \/ AnchorReturned(t))

---------------------------------------------------------------------------
(* Concurrent calls of get_anchor_date.  The report functions are plain    *)
(* synchronous functions; when they are served on several threads,         *)
(* _anchor_date_cache, a module global read and written without a lock,    *)
(* is shared by them, and the calls interleave at every read and write of  *)
(* it and at the query.  Here `call` holds the frame of each call          *)
(* in flight and `outcome` what each call returned, together with the      *)
(* latest timestamps the store has had since the cache was first set.      *)

Callers == 1 .. 3
RaceStamps == {0, 1}

Frame(at, row) == [tool |-> "get_anchor_date", at |-> at, row |-> row]

InitRace ==
    /\ store = {}
    /\ now = 0
    /\ anchor_cache = None
    /\ call = [c \in Callers |-> Frame("start", None)]
    /\ outcome = [returned |-> [c \in Callers |-> None], observed |-> {}]

At(c, at) == call[c].at = at
Goto(c, at, row) == call' = [call EXCEPT ![c] = Frame(at, row)]
Return(c, value) ==
    /\ Goto(c, "done", None)
    /\ outcome' = [outcome EXCEPT !.returned[c] = Some(value)]

\* if _anchor_date_cache is not None
CheckCache(c) ==
    /\ At(c, "start")
    /\ Goto(c, IF IsNone(anchor_cache) THEN "miss" ELSE "hit", None)
    /\ UNCHANGED <<store, now, anchor_cache, outcome>>

\* return _anchor_date_cache, read again
ReturnCached(c) ==
    /\ At(c, "hit")
    /\ Return(c, Val(anchor_cache))
    /\ UNCHANGED <<store, now, anchor_cache>>

\* SELECT MAX("timestamp"): a row, or nothing on an empty table or an exception
QueryMax(c) ==
    /\ At(c, "miss")
    /\ \E result \in {"ok", "OperationalError"} :
          IF result = "ok" /\ store # {}
          THEN Goto(c, "fetched", Some(LatestTimestamp))
          ELSE Goto(c, "fallback", None)
    /\ UNCHANGED <<store, now, anchor_cache, outcome>>

\* _anchor_date_cache = row[0]
AssignCache(c) ==
    /\ At(c, "fetched")
    /\ anchor_cache' = call[c].row
    /\ Goto(c, "assigned", None)
    /\ outcome' = IF IsNone(anchor_cache)
                  THEN [outcome EXCEPT !.observed = {LatestTimestamp}]
                  ELSE outcome
    /\ UNCHANGED <<store, now>>

\* return _anchor_date_cache, read again after the assignment
ReturnAssigned(c) ==
    /\ At(c, "assigned")
    /\ Return(c, Val(anchor_cache))
    /\ UNCHANGED <<store, now, anchor_cache>>

\* return datetime.now(timezone.utc)
ReturnNow(c) ==
    /\ At(c, "fallback")
    /\ Return(c, now)
    /\ UNCHANGED <<store, now, anchor_cache>>

\* measurements are only ever added
AddMeasurement ==
    \E ts \in RaceStamps :
        /\ ts <= now
        /\ \A r \in store : r.ts # ts
        /\ store' = store \cup {Row("INV001", ts, Some(1000), Some(100), Some(5), None)}
        /\ outcome' = IF IsNone(anchor_cache)
                      THEN outcome
                      ELSE [outcome EXCEPT
                               !.observed = @ \cup {Max({r.ts : r \in store'})}]
        /\ UNCHANGED <<now, anchor_cache, call>>

RaceTick ==
    /\ now < Max(RaceStamps)
    /\ now' = now + 1
    /\ UNCHANGED <<store, anchor_cache, call, outcome>>

NextRace ==
    \/ AddMeasurement
    \/ RaceTick
    \/ \E c \in Callers :
          \/ CheckCache(c)
          \/ ReturnCached(c)
          \/ QueryMax(c)
          \/ AssignCache(c)
          \/ ReturnAssigned(c)
          \/ ReturnNow(c)

SpecRace == InitRace /\ [][NextRace]_vars

AllFinished == \A c \in Callers : call[c].at = "done"

(* C29: with concurrent get_anchor_date calls, measurements only added and *)
(* no clear_anchor_cache, the cached anchor date never decreases once set, *)
(* and when all calls have finished it is a value that was the store's     *)
(* latest timestamp at or after the moment the cache was first set.        *)
C29_CacheNeverDecreases ==
    [][/\ ~IsNone(anchor_cache) =>
              /\ ~IsNone(anchor_cache')
              /\ Val(anchor_cache') >= Val(anchor_cache)
       /\ (AllFinished' /\ ~IsNone(anchor_cache')) =>
              Val(anchor_cache') \in outcome'.observed]_vars

---------------------------------------------------------------------------
(* C30: calculate_performance_ratio never divides by zero: whenever the    *)
(* ratio step is reached the capacity, inferred or overridden, is strictly *)
(* positive and the theoretical power irradiance x capacity x efficiency   *)
(* x 10 is strictly positive for every row used, so every row's ratio and  *)
(* the reported performanceRatio are finite numbers.                       *)

\* the rows the ratio step divides over
RatioRows == build_performance_query(call.args.logger_id, call.args.date)

C30_NoDivisionByZero ==
    (call.tool = "calculate_performance_ratio" /\ Reported
        /\ Report.performanceRatio # <<>>) =>
        /\ Val(Report.inferredCapacityKw) > 0
        /\ \A i \in 1 .. Len(RatioRows) :
              /\ 3 * Val(RatioRows[i].irradiance) * Val(Report.inferredCapacityKw) > 0
              /\ ~RatioOf(RatioRows[i], Val(Report.inferredCapacityKw)).nan
        /\ ~ReportedPr.nan

====
